---- MODULE Spec2Model ----
(***************************************************************************)
(* A model of the venmo_api client: the response validator and request     *)
(* client (apis/api_client.py, utils/api_client.py), the login / two-factor *)
(* flow (apis/auth_api.py), deserialize (apis/api_util.py), UserApi,        *)
(* PaymentApi and the Client of venmo.py.                                   *)
(*                                                                          *)
(* JSON objects and header mappings are functions whose DOMAIN is the set   *)
(* of keys present; a JSON list is a sequence.  A body is tagged with its   *)
(* kind: "invalid" (response.json() raises JSONDecodeError), "object" or    *)
(* "list".                                                                  *)
(***************************************************************************)
EXTENDS Integers, Sequences, FiniteSets, TLC

VARIABLES
    \* --- the validator applied to one response (SpecValidate)
    response,          \* the raw requests.Response handed to _validate_response
    ok_error_codes,    \* the caller's ok_error_codes
    validated,         \* the outcome of _validate_response, NotRun before the call
    \* --- ApiClient
    api_client,        \* the ApiClient: access_token, device_id, _session_id,
                       \* default_headers and session (its headers)
    last_call,         \* the latest call_api: its method, its outcome and the
                       \* requests it handed to session.request
    sent,              \* the requests the login flow handed to session.request
    \* --- AuthenticationApi and one run of login_with_credentials_cli
    auth_device_id,    \* AuthenticationApi._device_id
    pc,                \* where the login flow stands
    cred_response,     \* login_with_credentials_cli's response
    otp_secret,        \* _two_factor_process_cli's otp_secret
    user_otp,          \* _two_factor_process_cli's user_otp
    flow_token,        \* _two_factor_process_cli's access_token
    login_result,      \* what login_with_credentials_cli returned or raised
    \* --- history of the run
    token_at_start,    \* api_client.access_token when the login flow started
    outcomes,          \* per request sent by the flow: what the method that
                       \* sent it returned ("None") or raised
    last_net,          \* what the network answered to the latest request
    \* --- the callback variant of call_api (utils/api_client.py)
    threads,           \* the threads call_api started that have not run yet
    sessions,          \* the requests.Session objects those threads created
    \* --- UserApi, PaymentApi, Client
    page,              \* the Page the caller holds
    payment_api,       \* the PaymentApi: _profile and _balance
    client,            \* the Client: its UserApi's caches, _profile, _balance
    \* --- deserialize applied to one validated response (SpecDeserialize)
    data_type,         \* deserialize's data_type
    nested_response,   \* deserialize's nested_response
    deserialized       \* the outcome of deserialize, NotRun before the call

vars == <<response, ok_error_codes, validated, api_client, sent, last_call,
          auth_device_id, pc, cred_response, otp_secret, user_otp, flow_token,
          login_result, token_at_start, outcomes, last_net, threads, sessions,
          page, payment_api, client, data_type, nested_response, deserialized>>

deserializeVars == <<data_type, nested_response, deserialized>>
apiVars == <<threads, sessions, page, payment_api, client, deserializeVars>>

validateVars == <<response, ok_error_codes, validated>>
loginVars == <<auth_device_id, pc, cred_response, otp_secret, user_otp,
               flow_token, login_result, token_at_start, outcomes, last_net>>

-----------------------------------------------------------------------------
(* Values *)

\* Python's None where a string is expected.
None == "None"

\* The error code _validate_response turns into ResourceNotFoundError.
RESOURCE_NOT_FOUND_CODE == 283

\* AuthenticationApi.TWO_FACTOR_ERROR_CODE
TWO_FACTOR_ERROR_CODE == 81109

\* range(200, 205): the statuses _validate_response accepts whatever the body.
OK_STATUS_FIRST == 200
OK_STATUS_END == 205
OkStatuses == OK_STATUS_FIRST..(OK_STATUS_END - 1)

\* {} : the empty JSON object, the empty header mapping.
EmptyDict == <<>>

Range(s) == {s[i] : i \in DOMAIN s}

\* dict.update: the entries of new replace those of old.
Update(old, new) == new @@ old

\* Python truthiness of a str | None.
TruthyStr(s) == s # None /\ s # ""

AccessTokens == {"tok1", "tok2"}
OtpSecrets == {"sec1", "sec2"}

ErrorCodes == {RESOURCE_NOT_FOUND_CODE, TWO_FACTOR_ERROR_CODE, 1}

\* The error objects of a body: with a code and a message, or with neither.
ErrorObjects ==
    {[code |-> c, message |-> "msg"] : c \in ErrorCodes} \cup {[title |-> "Error"]}

\* The JSON objects a response body may be: any combination of an error and
\* an access_token entry, the empty object included.
JsonObjects ==
    {EmptyDict}
    \cup {[error |-> e] : e \in ErrorObjects}
    \cup {[access_token |-> t] : t \in AccessTokens}
    \cup {[error |-> e, access_token |-> t] : e \in ErrorObjects, t \in AccessTokens}

InvalidJson == [kind |-> "invalid", val |-> EmptyDict]
EmptyObjectBody == [kind |-> "object", val |-> EmptyDict]

Bodies ==
    {InvalidJson}
    \cup {[kind |-> "object", val |-> o] : o \in JsonObjects}
    \cup {[kind |-> "list", val |-> l] : l \in {<<>>, <<"item">>}}

ResponseHeaders ==
    {EmptyDict} \cup {("venmo-otp-secret" :> s) : s \in OtpSecrets \cup {""}}

Statuses == {199, 200, 201, 204, 205, 400, 401, 500}

\* requests.Response: status_code, headers, and what json() gives.
Responses == [status_code : Statuses, headers : ResponseHeaders, json : Bodies]

\* ok_error_codes as call_api's callers pass it; <<>> stands for None and for
\* the empty list, which the code treats alike (both are falsy).
OkErrorCodes ==
    {<<>>, <<TWO_FACTOR_ERROR_CODE>>, <<RESOURCE_NOT_FOUND_CODE>>,
     <<RESOURCE_NOT_FOUND_CODE, TWO_FACTOR_ERROR_CODE>>, <<1>>}

-----------------------------------------------------------------------------
(* Outcomes of a call: a returned value or a raised exception *)

Returned(v) == [exc |-> "None", value |-> v]
Raised(e) == [exc |-> e, value |-> EmptyDict]
NotRun == [exc |-> "NotRun", value |-> EmptyDict]

-----------------------------------------------------------------------------
(* apis/api_client.py: ApiClient._validate_response *)

\* bool(body) of a parsed body: an empty object and an empty list are falsy.
Truthy(body) == body.val # EmptyDict

\* body.get("error").get("code") raises AttributeError when body is a list
\* (no get) or has no error entry (None has no get).
ErrorCodeRaises(body) == body.kind # "object" \/ "error" \notin DOMAIN body.val

\* body.get("error").get("code"): {c} for a code c, {} for None.
ErrorCode(body) ==
    IF "code" \in DOMAIN body.val.error THEN {body.val.error.code} ELSE {}

\* try: body = response.json()  except JSONDecodeError: body = {}
\* (the error requests raises for a body that is no JSON, an empty body
\* included, is a json.JSONDecodeError).
ParsedBody(resp) == IF resp.json.kind = "invalid" THEN EmptyObjectBody ELSE resp.json

ValidatedResponse(status_code, headers, body) ==
    [status_code |-> status_code, headers |-> headers, body |-> body]

\* The elif and else branches of _validate_response.
ValidateNotAccepted(resp, body) ==
    IF resp.status_code = 400
    THEN IF ErrorCodeRaises(body) THEN Raised("AttributeError")
         ELSE IF ErrorCode(body) = {RESOURCE_NOT_FOUND_CODE}
              THEN Raised("ResourceNotFoundError")
              ELSE Raised("HttpCodeError")
    ELSE Raised("HttpCodeError")

\* body and ok_error_codes and body.get("error").get("code") in ok_error_codes,
\* for a body whose error lookup does not raise.
CodeIsOk(body, ok_codes) == \E c \in ErrorCode(body) : c \in Range(ok_codes)

\* A slip: the operands of the `or` exchanged, so that the error code is looked
\* up before the status is tested.
validate_response_CodesFirst(resp, ok_codes) ==
    LET body == ParsedBody(resp)
        built_response == ValidatedResponse(resp.status_code, resp.headers, body)
    IN  IF Truthy(body) /\ ok_codes # <<>>
        THEN IF ErrorCodeRaises(body) THEN Raised("AttributeError")
             ELSE IF CodeIsOk(body, ok_codes) \/ resp.status_code \in OkStatuses
                  THEN Returned(built_response)
                  ELSE ValidateNotAccepted(resp, body)
        ELSE IF resp.status_code \in OkStatuses
             THEN Returned(built_response)
             ELSE ValidateNotAccepted(resp, body)

\* A slip: ok_error_codes ignored, only the 20x statuses accepted.
validate_response_Only20x(resp, ok_codes) ==
    LET body == ParsedBody(resp)
    IN  IF resp.status_code \in OkStatuses
        THEN Returned(ValidatedResponse(resp.status_code, resp.headers, body))
        ELSE ValidateNotAccepted(resp, body)

_validate_response(resp, ok_codes) ==
    LET headers == resp.headers
        body == ParsedBody(resp)
        built_response == ValidatedResponse(resp.status_code, headers, body)
    IN  IF resp.status_code \in OkStatuses
        THEN Returned(built_response)
        ELSE IF Truthy(body) /\ ok_codes # <<>>
             THEN IF ErrorCodeRaises(body) THEN Raised("AttributeError")
                  ELSE IF CodeIsOk(body, ok_codes)
                       THEN Returned(built_response)
                       ELSE ValidateNotAccepted(resp, body)
             ELSE ValidateNotAccepted(resp, body)

-----------------------------------------------------------------------------
(* apis/api_client.py: ApiClient *)

\* What session.request gives: a response, or a transport failure
\* (requests.ConnectionError), which nothing in the client catches.
NetResponse(r) == [kind |-> "response", response |-> r]
NetFailure == [kind |-> "ConnectionError", response |-> EmptyDict]

\* "Bearer " + access_token
Bearer(token) == <<"Bearer", token>>

\* The content of default_headers.json, read by the constructor.
DefaultHeadersFile == ("User-Agent" :> "Venmo")

HOST == "https://api.venmo.com/v1"

\* A slip: the token is stored but the Authorization header is not renewed.
update_access_token_NoHeader(c, token) ==
    [c EXCEPT !.access_token = token]

update_access_token(c, token) ==
    [c EXCEPT !.access_token = token,
              !.default_headers = Update(@, "Authorization" :> Bearer(token)),
              !.session.headers = Update(@, "Authorization" :> Bearer(token))]

update_device_id(c, dev) ==
    [c EXCEPT !.device_id = dev,
              !.default_headers = Update(@, "device-id" :> dev),
              !.session.headers = Update(@, "device-id" :> dev)]

\* sid is what str(getrandbits(64)) gave.
update_session_id(c, sid) ==
    [c EXCEPT !._session_id = sid,
              !.default_headers = Update(@, "X-Session-ID" :> sid),
              !.session.headers = Update(@, "X-Session-ID" :> sid)]

\* ApiClient(access_token, device_id)
ApiClient(token, dev, sid) ==
    LET c0 == [default_headers |-> DefaultHeadersFile,
               session |-> [headers |-> Update(EmptyDict, DefaultHeadersFile)],
               access_token |-> token,
               device_id |-> dev,
               _session_id |-> None,
               configuration |-> [host |-> HOST]]
        c1 == IF TruthyStr(token) THEN update_access_token(c0, token) ELSE c0
        c2 == IF TruthyStr(dev) THEN update_device_id(c1, dev) ELSE c1
    IN  update_session_id(c2, sid)

HttpMethods == {"POST", "PUT", "GET", "DELETE"}

\* What a call did: the requests it sent on the session and its outcome.
CallResult(requests, outcome) == [sent |-> requests, outcome |-> outcome]

\* A slip: the request is sent before the method is looked at.
request_SendFirst(c, method, url, header_params, params, body, ok_codes, net) ==
    LET req == [method |-> method, url |-> url,
                headers |-> Update(c.session.headers, header_params),
                params |-> params, json |-> body]
    IN  IF method \notin HttpMethods
        THEN CallResult(<<req>>, Raised("InvalidHttpMethodError"))
        ELSE IF net.kind # "response"
             THEN CallResult(<<req>>, Raised(net.kind))
             ELSE CallResult(<<req>>, _validate_response(net.response, ok_codes))

\* A slip: a request that ended in an exception is sent a second time.
request_Retry(c, method, url, header_params, params, body, ok_codes, net) ==
    LET req == [method |-> method, url |-> url,
                headers |-> Update(c.session.headers, header_params),
                params |-> params, json |-> body]
        outcome == IF net.kind # "response" THEN Raised(net.kind)
                   ELSE _validate_response(net.response, ok_codes)
    IN  IF method \notin HttpMethods
        THEN CallResult(<<>>, Raised("InvalidHttpMethodError"))
        ELSE IF outcome.exc # "None" THEN CallResult(<<req, req>>, outcome)
        ELSE CallResult(<<req>>, outcome)

\* ApiClient.request: session.request merges the session's headers with the
\* headers of the call, the call's winning.
request(c, method, url, header_params, params, body, ok_codes, net) ==
    IF method \notin HttpMethods
    THEN CallResult(<<>>, Raised("InvalidHttpMethodError"))
    ELSE LET req == [method |-> method, url |-> url,
                     headers |-> Update(c.session.headers, header_params),
                     params |-> params, json |-> body]
         IN  IF net.kind # "response"
             THEN CallResult(<<req>>, Raised(net.kind))
             ELSE CallResult(<<req>>, _validate_response(net.response, ok_codes))

\* ApiClient.call_api; a body of None is the empty dict here (both are falsy).
call_api(c, resource_path, method, header_params, params, body, ok_codes, net) ==
    LET hp == IF body # EmptyDict
              THEN Update(header_params,
                          "Content-Type" :> "application/json; charset=utf-8")
              ELSE header_params
        url == <<c.configuration.host, resource_path>>
    IN  request(c, method, url, hp, params, body, ok_codes, net)

-----------------------------------------------------------------------------
(* apis/auth_api.py: AuthenticationApi *)

\* What random_device_id() gave.
RandomDeviceId == "RANDOM-UUID"

\* AuthenticationApi(api_client, device_id), for an api_client that is given:
\* the device id it keeps.
AuthDeviceId(dev) == IF TruthyStr(dev) THEN dev ELSE RandomDeviceId

\* ... and the api_client it leaves.
AuthenticationApiClient(c, dev) == update_device_id(c, AuthDeviceId(dev))

authenticate_using_username_password(c, username, password, net) ==
    call_api(c, "/oauth/access_token", "POST", EmptyDict, EmptyDict,
             [phone_email_or_username |-> username, client_id |-> "1",
              password |-> password],
             <<TWO_FACTOR_ERROR_CODE>>, net)

\* A slip: a delivery call that was refused is made a second time.
send_text_otp_Retry(c, secret, net) ==
    LET r == call_api(c, "/account/two-factor/token", "POST",
                      ("venmo-otp-secret" :> secret), EmptyDict,
                      [via |-> "sms"], <<>>, net)
    IN  IF r.outcome.exc # "None" THEN CallResult(r.sent \o r.sent, r.outcome)
        ELSE IF r.outcome.value.status_code # 200
             THEN CallResult(r.sent, Raised("AuthenticationFailedError"))
             ELSE r

send_text_otp(c, secret, net) ==
    LET r == call_api(c, "/account/two-factor/token", "POST",
                      ("venmo-otp-secret" :> secret), EmptyDict,
                      [via |-> "sms"], <<>>, net)
    IN  IF r.outcome.exc # "None" THEN r
        ELSE IF r.outcome.value.status_code # 200
             THEN CallResult(r.sent, Raised("AuthenticationFailedError"))
             ELSE r

\* response.body["access_token"]: a list takes no string index, an object
\* without the key raises KeyError.
BodyAccessToken(body) ==
    IF body.kind # "object" THEN Raised("TypeError")
    ELSE IF "access_token" \notin DOMAIN body.val THEN Raised("KeyError")
    ELSE Returned(body.val.access_token)

\* A slip: the secret left out of the headers of the exchange.
authenticate_using_otp_NoSecret(c, otp, secret, net) ==
    LET r == call_api(c, "/oauth/access_token", "POST",
                      ("venmo-otp" :> otp),
                      [client_id |-> 1], EmptyDict, <<>>, net)
    IN  IF r.outcome.exc # "None" THEN r
        ELSE CallResult(r.sent, BodyAccessToken(r.outcome.value.body))

authenticate_using_otp(c, otp, secret, net) ==
    LET r == call_api(c, "/oauth/access_token", "POST",
                      ("venmo-otp" :> otp) @@ ("venmo-otp-secret" :> secret),
                      [client_id |-> 1], EmptyDict, <<>>, net)
    IN  IF r.outcome.exc # "None" THEN r
        ELSE CallResult(r.sent, BodyAccessToken(r.outcome.value.body))

\* trust_this_device(device_id): api_dev is AuthenticationApi._device_id.
trust_this_device(c, api_dev, dev, net) ==
    LET used == IF TruthyStr(dev) THEN dev ELSE api_dev
    IN  call_api(c, "/users/devices", "POST", ("device-id" :> used),
                 EmptyDict, EmptyDict, <<>>, net)

\* response.body.get("error"): a list has no get; the error objects of the
\* model are non-empty, hence truthy.
BodyGetRaises(body) == body.kind # "object"

\* A slip: `if response.body` for `if response.body.get("error")`.
BodyHasError_AnyBody(body) == body.val # EmptyDict

BodyHasError(body) == "error" \in DOMAIN body.val

\* response.headers.get("venmo-otp-secret")
HeaderOtpSecret(headers) ==
    IF "venmo-otp-secret" \in DOMAIN headers THEN headers["venmo-otp-secret"] ELSE None

\* A slip: only a missing header is refused, an empty one is taken as a secret.
OtpSecretMissing_IsNone(secret) == secret = None

\* if not otp_secret
OtpSecretMissing(secret) == ~TruthyStr(secret)

\* str.isdigit() of a string given as the sequence of its characters.
Digits == {"0", "1", "2", "3", "4", "5", "6", "7", "8", "9"}
IsDigit(str) == str # <<>> /\ \A i \in DOMAIN str : str[i] \in Digits

\* The length _ask_user_for_otp_password asks for.
OTP_LENGTH == 6

\* The loop condition of _ask_user_for_otp_password: ask again.
OtpRefused(otp) == Len(otp) < OTP_LENGTH \/ ~IsDigit(otp)

-----------------------------------------------------------------------------
(* utils/api_client.py: the older ApiClient, whose call_api takes a callback *)

\* An attribute that __init__ does not set, before its first assignment; and
\* the argument of a callback that was not called.
Unset == <<>>

utils_update_session_id(c, sid) ==
    [c EXCEPT !._session_id = sid,
              !.session.headers = Update(@, "X-Session-ID" :> sid)]

utils_update_access_token(c, token) ==
    [c EXCEPT !.access_token = token,
              !.default_headers = Update(@, "Authorization" :> Bearer(token)),
              !.session.headers = Update(@, "Authorization" :> Bearer(token))]

utils_update_device_id(c, dev) ==
    [c EXCEPT !.device_id = dev,
              !.default_headers = Update(@, "device-id" :> dev),
              !.session.headers = Update(@, "device-id" :> dev)]

\* ApiClient(access_token, device_id) of utils/api_client.py; last_response is
\* the attribute __call_api assigns.
utils_ApiClient(token, dev, sid) ==
    LET c0 == [default_headers |-> DefaultHeadersFile,
               session |-> [headers |-> Update(EmptyDict, DefaultHeadersFile)],
               access_token |-> token,
               device_id |-> dev,
               _session_id |-> None,
               configuration |-> [host |-> HOST],
               last_response |-> Unset]
        c1 == IF TruthyStr(token) THEN utils_update_access_token(c0, token) ELSE c0
        c2 == IF TruthyStr(dev) THEN utils_update_device_id(c1, dev) ELSE c1
    IN  utils_update_session_id(c2, sid)

\* The else branch of __validate_response.
utils_ValidateElse(resp, body, built_response, ok_codes) ==
    IF Truthy(body) /\ ok_codes # <<>>
    THEN IF ErrorCodeRaises(body) THEN Raised("AttributeError")
         ELSE IF CodeIsOk(body, ok_codes) THEN Returned(built_response)
              ELSE Raised("HttpCodeError")
    ELSE Raised("HttpCodeError")

\* ApiClient.__validate_response: a body that is no JSON empties body and
\* headers; the elif calls response.json() again, outside the try.
utils___validate_response(resp, ok_codes) ==
    LET invalid == resp.json.kind = "invalid"
        body == IF invalid THEN EmptyObjectBody ELSE resp.json
        headers == IF invalid THEN EmptyDict ELSE resp.headers
        built_response == [status_code |-> resp.status_code,
                           headers |-> headers, body |-> body]
    IN  IF resp.status_code \in OkStatuses THEN Returned(built_response)
        ELSE IF resp.status_code = 400
             THEN IF invalid THEN Raised("JSONDecodeError")
                  ELSE IF ErrorCodeRaises(body) THEN Raised("AttributeError")
                  ELSE IF ErrorCode(body) = {RESOURCE_NOT_FOUND_CODE}
                       THEN Raised("ResourceNotFoundError")
                       ELSE utils_ValidateElse(resp, body, built_response, ok_codes)
             ELSE utils_ValidateElse(resp, body, built_response, ok_codes)

\* ApiClient.request(method, url, session, ...)
utils_request(c, method, url, session, header_params, params, body, ok_codes, net) ==
    IF method \notin HttpMethods
    THEN CallResult(<<>>, Raised("InvalidHttpMethodError"))
    ELSE LET req == [method |-> method, url |-> url,
                     headers |-> Update(session.headers, header_params),
                     params |-> params, json |-> body]
         IN  IF net.kind # "response"
             THEN CallResult(<<req>>, Raised(net.kind))
             ELSE CallResult(<<req>>,
                             utils___validate_response(net.response, ok_codes))

\* session = requests.Session(); session.headers.update(self.default_headers)
NewSession(c) == [headers |-> Update(EmptyDict, c.default_headers)]

\* What __call_api did: the requests it sent, what it returned or raised, the
\* client it leaves, and what it handed to the callback (Unset: not called).
CallApiResult(requests, outcome, c, handed) ==
    [sent |-> requests, outcome |-> outcome, client |-> c, handed |-> handed]

\* A slip: the session of the callback path is left as requests creates it.
utils___call_api_BareSession(c, resource_path, method, header_params, params, body, callback, ok_codes, net) ==
    LET hp == IF body # EmptyDict
              THEN Update(header_params,
                          "Content-Type" :> "application/json; charset=utf-8")
              ELSE header_params
        url == <<c.configuration.host, resource_path>>
        session == IF callback # None THEN [headers |-> EmptyDict] ELSE c.session
        r == utils_request(c, method, url, session, hp, params, body, ok_codes, net)
    IN  IF r.outcome.exc # "None"
        THEN CallApiResult(r.sent, r.outcome, c, Unset)
        ELSE LET c1 == [c EXCEPT !.last_response = r.outcome.value]
             IN  IF callback # None
                 THEN CallApiResult(r.sent, Returned(None), c1, r.outcome.value)
                 ELSE CallApiResult(r.sent, r.outcome, c1, Unset)

\* ApiClient.__call_api; callback is None or the caller's function.
utils___call_api(c, resource_path, method, header_params, params, body, callback, ok_codes, net) ==
    LET hp == IF body # EmptyDict
              THEN Update(header_params,
                          "Content-Type" :> "application/json; charset=utf-8")
              ELSE header_params
        url == <<c.configuration.host, resource_path>>
        session == IF callback # None THEN NewSession(c) ELSE c.session
        r == utils_request(c, method, url, session, hp, params, body, ok_codes, net)
    IN  IF r.outcome.exc # "None"
        THEN CallApiResult(r.sent, r.outcome, c, Unset)
        ELSE LET c1 == [c EXCEPT !.last_response = r.outcome.value]
             IN  IF callback # None
                 THEN CallApiResult(r.sent, Returned(None), c1, r.outcome.value)
                 ELSE CallApiResult(r.sent, r.outcome, c1, Unset)

\* The Thread call_api starts when a callback is given: its args are
\* (resource_path, method, header_params, params, body, callback), so that
\* ok_error_codes keeps its default, None.
utils_call_api_Thread(resource_path, method, header_params, params, body, callback) ==
    [resource_path |-> resource_path, method |-> method,
     header_params |-> header_params, params |-> params, body |-> body,
     callback |-> callback, ok_error_codes |-> <<>>]

\* A session is named by its place among the sessions the threads created;
\* the session the constructor gave the client is named 0.
PrimarySession == 0

\* A slip: the call with a callback sends on the client's own session too.
SessionOf_Primary(c, callback, created) == [id |-> PrimarySession, created |-> created]

\* The session __call_api sends on: with a callback a new requests.Session
\* that took the client's default_headers, else the client's own.
SessionOf(c, callback, created) ==
    IF callback # None
    THEN [id |-> Len(created) + 1, created |-> Append(created, NewSession(c))]
    ELSE [id |-> PrimarySession, created |-> created]

SessionAt(c, created, id) == IF id = PrimarySession THEN c.session ELSE created[id]

-----------------------------------------------------------------------------
(* apis/api_util.py: deserialize, with the models it converts to *)

\* The JSON values deserialize walks through carry their kind, as a body does.
JObject(o) == [kind |-> "object", val |-> o]
JList(l) == [kind |-> "list", val |-> l]
JString(str) == [kind |-> "string", val |-> str]
JNumber(n) == [kind |-> "number", val |-> n]
JNull == [kind |-> "null", val |-> EmptyDict]

\* Python's None where an object is expected.
NoneObject == <<>>

\* v.get(key) of a JSON object: None for a key that is absent.
Get(v, key) == IF key \in DOMAIN v.val THEN v.val[key] ELSE JNull

\* `not v` of a JSON value.
Falsy(v) ==
    CASE v.kind = "null" -> TRUE
      [] v.kind \in {"object", "list"} -> v.val = EmptyDict
      [] v.kind = "string" -> v.val = ""
      [] v.kind = "number" -> v.val = 0

\* The fields of each pydantic model that the model keeps: those without a
\* default, and those with the default None.
RequiredFields(type) ==
    CASE type = "User" -> {"id", "username"}
      [] type = "Payment" -> {"id", "status"}
      [] type = "PaymentMethod" -> {"id", "peer_payment_role"}
      [] type = "EligibilityToken" -> {"eligibility_token"}
      [] type = "TransferPostResponse" -> {"id", "amount_cents"}

DefaultFields(type) ==
    CASE type = "User" -> {"phone"}
      [] type = "Payment" -> {"audience"}
      [] OTHER -> {}

\* data_type.model_validate(data): a value that is no object, or lacks a
\* required field, is refused; entries that are no field of the model are
\* dropped and absent fields with a default take it.
model_validate(type, v) ==
    IF v.kind # "object" \/ ~(RequiredFields(type) \subseteq DOMAIN v.val)
    THEN Raised("ValidationError")
    ELSE Returned([f \in {"class"} \cup RequiredFields(type) \cup DefaultFields(type) |->
                     IF f = "class" THEN type
                     ELSE IF f \in DOMAIN v.val THEN v.val[f] ELSE None])

\* The numerals the upstream writes in strings, in thousandths of a dollar.
Numerals == ("12.5" :> 12500) @@ ("0.0" :> 0)

\* float(data); a float is kept in thousandths of a dollar.
float(v) ==
    CASE v.kind = "number" -> Returned(v.val)
      [] v.kind = "string" -> IF v.val \in DOMAIN Numerals
                              THEN Returned(Numerals[v.val])
                              ELSE Raised("ValueError")
      [] OTHER -> Raised("TypeError")

IsBaseModel(type) == type # "float"

\* issubclass(data_type, BaseModel) and the conversion of either branch.
Convert(type, v) == IF IsBaseModel(type) THEN model_validate(type, v) ELSE float(v)

\* Page(): an empty sequence with no producing call recorded.
NoOffset == -1
Page(items) ==
    [class |-> "Page", items |-> items, method |-> None, kwargs |-> EmptyDict,
     current_offset |-> NoOffset]

IsPage(v) == "class" \in DOMAIN v /\ v.class = "Page"

\* A slip: the loop stops before the last element.
__get_objs_from_json_list_DropLast(json_list, type) ==
    LET n == IF json_list = <<>> THEN 0 ELSE Len(json_list) - 1
        conv == [i \in 1..n |-> Convert(type, json_list[i])]
    IN  IF \E i \in 1..n : conv[i].exc # "None"
        THEN conv[CHOOSE i \in 1..n :
                     /\ conv[i].exc # "None"
                     /\ \A j \in 1..(i - 1) : conv[j].exc = "None"]
        ELSE Returned(Page([i \in 1..n |-> conv[i].value]))

\* __get_objs_from_json_list: the first element that fails its conversion
\* ends the loop with its exception.
__get_objs_from_json_list(json_list, type) ==
    LET conv == [i \in DOMAIN json_list |-> Convert(type, json_list[i])]
    IN  IF \E i \in DOMAIN json_list : conv[i].exc # "None"
        THEN conv[CHOOSE i \in DOMAIN json_list :
                     /\ conv[i].exc # "None"
                     /\ \A j \in 1..(i - 1) : conv[j].exc = "None"]
        ELSE Returned(Page([i \in DOMAIN json_list |-> conv[i].value]))

\* The loop over nested_response.
RECURSIVE Nested(_, _)
Nested(data, path) ==
    IF path = <<>> THEN Returned(data)
    ELSE IF data.kind # "object" THEN Raised("AttributeError")
    ELSE LET temp == Get(data, Head(path))
         IN  IF Falsy(temp) THEN Raised("ValueError")
             ELSE Nested(temp, Tail(path))

\* deserialize(response, data_type, nested_response); a nested_response of
\* None is the empty path here.
deserialize(resp, type, path) ==
    LET body == resp.body
    IN  IF ~Truthy(body) THEN Raised("Exception")
        ELSE IF body.kind # "object" THEN Raised("AttributeError")
        ELSE LET data == Nested(Get(body, "data"), path)
             IN  IF data.exc # "None" THEN data
                 ELSE IF data.value.kind = "list"
                      THEN __get_objs_from_json_list(data.value.val, type)
                      ELSE Convert(type, data.value)

-----------------------------------------------------------------------------
(* models/page.py, as spec.md 4.3 describes it: Page *)

\* "Set producing call": the retrieval method, its keyword arguments other
\* than the offset, and the offset at which the page started.
set_method(pg, method, kwargs, current_offset) ==
    [pg EXCEPT !.method = method, !.kwargs = kwargs,
               !.current_offset = current_offset]

\* deserialize(...).set_method(...): only a Page has set_method.
SetMethodOn(d, method, kwargs, current_offset) ==
    IF d.exc # "None" THEN d
    ELSE IF ~IsPage(d.value) THEN Raised("AttributeError")
    ELSE Returned(set_method(d.value, method, kwargs, current_offset))

\* The offset of the next page: the page's offset advanced by its limit.
NextOffset(pg) == pg.current_offset + pg.kwargs.limit

\* A keyword argument that is passed, or the default of the parameter.
KwArg(kwargs, name, default) == IF name \in DOMAIN kwargs THEN kwargs[name] ELSE default

-----------------------------------------------------------------------------
(* apis/user_api.py: UserApi *)

\* "@" in query, query.replace("@", ""), for a string given as the sequence of
\* its characters.
HasAt(query) == \E i \in DOMAIN query : query[i] = "@"
IsNotAt(ch) == ch # "@"
StripAt(query) == SelectSeq(query, IsNotAt)

\* A slip: set_method called without current_offset, the page starts at 0.
search_for_users_NoOffset(c, query, offset, limit, username, net) ==
    LET params0 == [query |-> query, limit |-> limit, offset |-> offset]
        params == IF username \/ HasAt(query)
                  THEN Update(params0, [query |-> StripAt(query), type |-> "username"])
                  ELSE params0
        r == call_api(c, "/users", "GET", EmptyDict, params, EmptyDict, <<>>, net)
    IN  IF r.outcome.exc # "None" THEN r
        ELSE CallResult(r.sent,
                        SetMethodOn(deserialize(r.outcome.value, "User", <<>>),
                                    "search_for_users",
                                    [query |-> query, limit |-> limit], 0))

search_for_users(c, query, offset, limit, username, net) ==
    LET params0 == [query |-> query, limit |-> limit, offset |-> offset]
        params == IF username \/ HasAt(query)
                  THEN Update(params0, [query |-> StripAt(query), type |-> "username"])
                  ELSE params0
        r == call_api(c, "/users", "GET", EmptyDict, params, EmptyDict, <<>>, net)
    IN  IF r.outcome.exc # "None" THEN r
        ELSE CallResult(r.sent,
                        SetMethodOn(deserialize(r.outcome.value, "User", <<>>),
                                    "search_for_users",
                                    [query |-> query, limit |-> limit], offset))

\* get_user: whatever deserialize raises gives None; call_api is outside the try.
get_user(c, user_id, net) ==
    LET r == call_api(c, <<"/users/", user_id>>, "GET", EmptyDict, EmptyDict,
                      EmptyDict, <<>>, net)
        d == deserialize(r.outcome.value, "User", <<>>)
    IN  IF r.outcome.exc # "None" THEN r
        ELSE IF d.exc # "None" THEN CallResult(r.sent, Returned(NoneObject))
        ELSE CallResult(r.sent, d)

get_user_friends_list(c, user_id, offset, limit, net) ==
    LET params == [limit |-> limit, offset |-> offset]
        r == call_api(c, <<"/users/", user_id, "/friends">>, "GET", EmptyDict,
                      params, EmptyDict, <<>>, net)
    IN  IF r.outcome.exc # "None" THEN r
        ELSE CallResult(r.sent,
                        SetMethodOn(deserialize(r.outcome.value, "User", <<>>),
                                    "get_user_friends_list",
                                    [user_id |-> user_id, limit |-> limit], offset))

\* "Next page": the recorded method called again with the recorded keyword
\* arguments and the advanced offset.
get_next_page(c, pg, net) ==
    IF pg.method = "search_for_users"
    THEN search_for_users(c, pg.kwargs.query, NextOffset(pg), pg.kwargs.limit,
                          KwArg(pg.kwargs, "username", FALSE), net)
    ELSE get_user_friends_list(c, pg.kwargs.user_id, NextOffset(pg),
                               pg.kwargs.limit, net)

-----------------------------------------------------------------------------
(* apis/payment_api.py: PaymentApi *)

\* PaymentApi._payment_error_codes, and its values in the order of the dict.
already_reminded_error == 2907
no_pending_payment_error == 2901
no_pending_payment_error2 == 2905
not_enough_balance_error == 13006
_payment_error_codes ==
    <<already_reminded_error, no_pending_payment_error, no_pending_payment_error2,
      not_enough_balance_error>>

\* list(...)[:-1]
ButLast(seq) == SubSeq(seq, 1, Len(seq) - 1)

\* An optional float is the set of its values: {} is None.  A float is kept
\* in thousandths of a dollar.
NoAmount == {}

\* Python's round, to the nearest multiple of unit, a tie going to the even one.
RoundHalfEven(n, unit) ==
    LET q == n \div unit
        r == n % unit
    IN  IF 2 * r < unit THEN q
        ELSE IF 2 * r > unit THEN q + 1
        ELSE IF q % 2 = 0 THEN q ELSE q + 1

\* round(amount * 100)
Cents(amount) == RoundHalfEven(amount, 10)
\* round(amount, 2)
Round2(amount) == 10 * RoundHalfEven(amount, 10)
Abs(n) == IF n < 0 THEN 0 - n ELSE n

\* PaymentApi(profile, api_client, balance)
PaymentApi(profile, balance) == [_profile |-> profile, _balance |-> balance]

\* One call after another: the requests of both, the outcome of the second.
Then(first, second) == CallResult(first.sent \o second.sent, second.outcome)

_update_payment(c, action, payment_id, net) ==
    call_api(c, <<"/payments/", payment_id>>, "PUT", EmptyDict, EmptyDict,
             [action |-> action], ButLast(_payment_error_codes), net)

\* "error" in response.body: a key of an object, an element of a list.
ErrorInBody(body) ==
    IF body.kind = "object" THEN "error" \in DOMAIN body.val
    ELSE \E i \in DOMAIN body.val : body.val[i] = JString("error")

\* response.body["error"]["code"]: {c} for a code, or the exception raised.
BodyErrorCode(body) ==
    IF body.kind # "object" THEN Raised("TypeError")
    ELSE IF "code" \notin DOMAIN body.val.error THEN Raised("KeyError")
    ELSE Returned(body.val.error.code)

remind_payment(c, payment_id, net) ==
    LET r == _update_payment(c, "remind", payment_id, net)
        body == r.outcome.value.body
        code == BodyErrorCode(body)
    IN  IF r.outcome.exc # "None" THEN r
        ELSE IF ~ErrorInBody(body) THEN CallResult(r.sent, Returned(TRUE))
        ELSE IF code.exc # "None" THEN CallResult(r.sent, code)
        ELSE IF code.value = no_pending_payment_error2
             THEN CallResult(r.sent, Raised("NoPendingPaymentToUpdateError"))
             ELSE CallResult(r.sent, Raised("AlreadyRemindedPaymentError"))

cancel_payment(c, payment_id, net) ==
    LET r == _update_payment(c, "cancel", payment_id, net)
    IN  IF r.outcome.exc # "None" THEN r
        ELSE IF ErrorInBody(r.outcome.value.body)
             THEN CallResult(r.sent, Raised("NoPendingPaymentToUpdateError"))
             ELSE CallResult(r.sent, Returned(TRUE))

get_payment_methods(c, net) ==
    LET r == call_api(c, "/payment-methods", "GET", EmptyDict, EmptyDict,
                      EmptyDict, <<>>, net)
    IN  IF r.outcome.exc # "None" THEN r
        ELSE CallResult(r.sent, deserialize(r.outcome.value, "PaymentMethod", <<>>))

\* _get_payments, behind get_charge_payments and get_pay_payments.
_get_payments(c, pa, action, limit, net) ==
    LET parameters == [action |-> action, actor |-> pa._profile.id, limit |-> limit]
        r == call_api(c, "/payments", "GET", EmptyDict, parameters, EmptyDict, <<>>, net)
    IN  IF r.outcome.exc # "None" THEN r
        ELSE CallResult(r.sent, deserialize(r.outcome.value, "Payment", <<>>))

\* get_default_payment_method reads p_method.role, an attribute PaymentMethod
\* does not have (its fields are peer_payment_role and merchant_payment_role):
\* the first method looked at raises AttributeError, and so does the first
\* (name, value) pair of a single PaymentMethod that is iterated over.
get_default_payment_method(c, net) ==
    LET r == get_payment_methods(c, net)
    IN  IF r.outcome.exc # "None" THEN r
        ELSE IF IsPage(r.outcome.value) /\ r.outcome.value.items = <<>>
             THEN CallResult(r.sent, Raised("NoPaymentMethodFoundError"))
             ELSE CallResult(r.sent, Raised("AttributeError"))

\* _get_eligibility_token(amount, note, target_id).eligibility_token
_get_eligibility_token(c, amount, note, target_id, net) ==
    LET body == [funding_source_id |-> "", action |-> "pay", country_code |-> "1",
                 target_type |-> "user_id", note |-> note, target_id |-> target_id,
                 amount |-> Cents(amount)]
        r == call_api(c, "/protection/eligibility", "POST", EmptyDict, EmptyDict,
                      body, <<>>, net)
        d == deserialize(r.outcome.value, "EligibilityToken", <<>>)
    IN  IF r.outcome.exc # "None" THEN r
        ELSE IF d.exc # "None" THEN CallResult(r.sent, d)
        ELSE IF IsPage(d.value) THEN CallResult(r.sent, Raised("AttributeError"))
        ELSE CallResult(r.sent, Returned(d.value.eligibility_token))

\* if error_code: of lines 365-366; an error code of 0 stands for the empty ones.
ErrorCodeNonEmpty(data) == "error_code" \in DOMAIN data.val /\ data.val.error_code # 0

\* A slip: every error code of a payment is reported as a general one.
PaymentCreated_AllGeneral(resp) ==
    LET body == resp.body
        data == body.val.data
    IN  IF body.kind # "object" THEN Raised("TypeError")
        ELSE IF "data" \notin DOMAIN body.val THEN Raised("KeyError")
        ELSE IF data.kind # "object" THEN Raised("AttributeError")
        ELSE IF ErrorCodeNonEmpty(data) THEN Raised("GeneralPaymentError")
        ELSE deserialize(resp, "Payment", <<"payment">>)

\* Lines 364-374: what _send_or_request_money makes of the response.
PaymentCreated(resp) ==
    LET body == resp.body
        data == body.val.data
    IN  IF body.kind # "object" THEN Raised("TypeError")
        ELSE IF "data" \notin DOMAIN body.val THEN Raised("KeyError")
        ELSE IF data.kind # "object" THEN Raised("AttributeError")
        ELSE IF ErrorCodeNonEmpty(data)
             THEN IF data.val.error_code = not_enough_balance_error
                  THEN Raised("NotEnoughBalanceError")
                  ELSE Raised("GeneralPaymentError")
             ELSE deserialize(resp, "Payment", <<"payment">>)

\* nets: the answers to the requests for the payment methods, the eligibility
\* token and the payment; uuid is what str(uuid.uuid4()) gave.
_send_or_request_money(c, amount, note, is_send_money, funding_source_id, target_user_id, privacy_setting, eligibility_token, uuid, nets) ==
    LET signed == IF is_send_money THEN Abs(amount) ELSE 0 - Abs(amount)
        body0 == [uuid |-> uuid, user_id |-> target_user_id,
                  audience |-> privacy_setting, amount |-> Round2(signed),
                  note |-> note]
        nothing == CallResult(<<>>, Returned(funding_source_id))
        method == IF is_send_money /\ ~TruthyStr(funding_source_id)
                  THEN get_default_payment_method(c, nets.methods)
                  ELSE nothing
        token == IF is_send_money /\ ~TruthyStr(eligibility_token)
                 THEN _get_eligibility_token(c, signed, note, target_user_id,
                                             nets.eligibility)
                 ELSE CallResult(<<>>, Returned(eligibility_token))
        body == IF is_send_money
                THEN Update(body0, [eligibility_token |-> token.outcome.value,
                                    funding_source_id |-> method.outcome.value])
                ELSE body0
        r == call_api(c, "/payments", "POST", EmptyDict, EmptyDict, body, <<>>,
                      nets.payment)
    IN  IF method.outcome.exc # "None" THEN method
        ELSE IF token.outcome.exc # "None" THEN Then(method, token)
        ELSE IF r.outcome.exc # "None" THEN Then(method, Then(token, r))
        ELSE Then(method, Then(token, CallResult(r.sent, PaymentCreated(r.outcome.value))))

send_money(c, amount, note, target_user_id, funding_source_id, uuid, nets) ==
    _send_or_request_money(c, amount, note, TRUE, funding_source_id,
                           target_user_id, "private", None, uuid, nets)

request_money(c, amount, note, target_user_id, uuid, nets) ==
    _send_or_request_money(c, amount, note, FALSE, None, target_user_id,
                           "private", None, uuid, nets)

\* initiate_transfer: the else of line 230 belongs to the whole condition, so
\* that an amount that is given raises as well.
initiate_transfer(c, pa, destination_id, amount, trans_type, net) ==
    LET amount_cents == Cents(CHOOSE a \in pa._balance : TRUE)
        body == [amount |-> amount_cents, destination_id |-> destination_id,
                 transfer_type |-> trans_type, final_amount |-> amount_cents]
        r == call_api(c, "/transfers", "POST", EmptyDict, EmptyDict, body, <<>>, net)
    IN  IF ~(amount = NoAmount /\ pa._balance # NoAmount)
        THEN CallResult(<<>>, Raised("ValueError"))
        ELSE IF r.outcome.exc # "None" THEN r
        ELSE CallResult(r.sent,
                        deserialize(r.outcome.value, "TransferPostResponse", <<>>))

-----------------------------------------------------------------------------
(* venmo.py: Client, with the methods of UserApi and AuthenticationApi it calls *)

\* UserApi(api_client): nothing cached yet.
UserApi == [_profile |-> NoneObject, _balance |-> NoAmount]

\* What a method of UserApi did: its requests, its outcome, the UserApi it
\* leaves.
UserResult(requests, outcome, u) ==
    [sent |-> requests, outcome |-> outcome, user |-> u]

\* UserApi.get_my_profile; a cached User is truthy.
get_my_profile(c, u, force_update, net) ==
    LET r == call_api(c, "/account", "GET", EmptyDict, EmptyDict, EmptyDict, <<>>, net)
        d == deserialize(r.outcome.value, "User", <<"user">>)
    IN  IF u._profile # NoneObject /\ ~force_update
        THEN UserResult(<<>>, Returned(u._profile), u)
        ELSE IF r.outcome.exc # "None" THEN UserResult(r.sent, r.outcome, u)
        ELSE IF d.exc # "None" THEN UserResult(r.sent, d, u)
        ELSE UserResult(r.sent, d, [u EXCEPT !._profile = d.value])

\* UserApi.get_my_balance; a cached balance of 0.0 is falsy and fetched again.
get_my_balance(c, u, force_update, net) ==
    LET r == call_api(c, "/account", "GET", EmptyDict, EmptyDict, EmptyDict, <<>>, net)
        d == deserialize(r.outcome.value, "float", <<"balance">>)
    IN  IF u._balance \notin {NoAmount, {0}} /\ ~force_update
        THEN UserResult(<<>>, Returned(CHOOSE b \in u._balance : TRUE), u)
        ELSE IF r.outcome.exc # "None" THEN UserResult(r.sent, r.outcome, u)
        ELSE IF d.exc # "None" THEN UserResult(r.sent, d, u)
        ELSE UserResult(r.sent, d, [u EXCEPT !._balance = {d.value}])

\* Client(api_client=api_client): the profile and the balance are fetched,
\* and an exception of either leaves no Client.
Client(c, net1, net2) ==
    LET p == get_my_profile(c, UserApi, FALSE, net1)
        b == get_my_balance(c, p.user, FALSE, net2)
    IN  IF p.outcome.exc # "None" THEN CallResult(p.sent, p.outcome)
        ELSE IF b.outcome.exc # "None" THEN CallResult(p.sent \o b.sent, b.outcome)
        ELSE CallResult(p.sent \o b.sent,
                        Returned([user |-> b.user,
                                  _profile |-> p.outcome.value,
                                  _balance |-> {b.outcome.value},
                                  payment |-> PaymentApi(p.outcome.value,
                                                         {b.outcome.value})]))

\* Client.my_profile
my_profile(c, cl, force_update, net) ==
    LET r == get_my_profile(c, cl.user, force_update, net)
    IN  IF ~force_update THEN UserResult(<<>>, Returned(cl._profile), cl)
        ELSE IF r.outcome.exc # "None" THEN UserResult(r.sent, r.outcome, cl)
        ELSE UserResult(r.sent, r.outcome,
                        [cl EXCEPT !.user = r.user, !._profile = r.outcome.value])

\* Client.my_balance
my_balance(c, cl, force_update, net) ==
    LET r == get_my_balance(c, cl.user, force_update, net)
    IN  IF ~force_update
        THEN UserResult(<<>>, Returned(CHOOSE b \in cl._balance : TRUE), cl)
        ELSE IF r.outcome.exc # "None" THEN UserResult(r.sent, r.outcome, cl)
        ELSE UserResult(r.sent, r.outcome,
                        [cl EXCEPT !.user = r.user, !._balance = {r.outcome.value}])

\* A slip: the client that sends the revocation is built without the token.
log_out_NoToken(access_token, sid, net) ==
    LET c == ApiClient(None, None, sid)
        r == call_api(c, "/oauth/access_token", "DELETE", EmptyDict, EmptyDict,
                      EmptyDict, <<>>, net)
    IN  IF r.outcome.exc # "None" THEN r ELSE CallResult(r.sent, Returned(TRUE))

\* AuthenticationApi.log_out: a client of its own, built with the token; sid
\* is the session id that client draws.
log_out(access_token, sid, net) ==
    LET c == ApiClient(access_token, None, sid)
        r == call_api(c, "/oauth/access_token", "DELETE", EmptyDict, EmptyDict,
                      EmptyDict, <<>>, net)
    IN  IF r.outcome.exc # "None" THEN r ELSE CallResult(r.sent, Returned(TRUE))

\* Client.__exit__: log_out_instance, that is log_out(self.access_token).
log_out_instance(c, sid, net) == log_out(c.access_token, sid, net)

-----------------------------------------------------------------------------
(* The validator applied to every response and every ok_error_codes *)

IdleClient ==
    /\ api_client = EmptyDict
    /\ sent = <<>>
    /\ last_call = NotRun

IdleLogin ==
    /\ auth_device_id = None
    /\ pc = "idle"
    /\ cred_response = EmptyDict
    /\ otp_secret = None
    /\ user_otp = <<>>
    /\ flow_token = None
    /\ login_result = NotRun
    /\ token_at_start = None
    /\ outcomes = <<>>
    /\ last_net = EmptyDict

IdleValidate ==
    /\ response = EmptyDict
    /\ ok_error_codes = <<>>
    /\ validated = NotRun

IdleDeserialize ==
    /\ data_type = None
    /\ nested_response = <<>>
    /\ deserialized = NotRun

IdleApi ==
    /\ threads = <<>>
    /\ sessions = <<>>
    /\ page = EmptyDict
    /\ payment_api = EmptyDict
    /\ client = EmptyDict

InitValidate ==
    /\ response \in Responses
    /\ ok_error_codes \in OkErrorCodes
    /\ validated = NotRun
    /\ IdleClient
    /\ IdleLogin
    /\ IdleApi
    /\ IdleDeserialize

Validate ==
    /\ validated = NotRun
    /\ validated' = _validate_response(response, ok_error_codes)
    /\ UNCHANGED <<response, ok_error_codes, api_client, sent, last_call, loginVars,
                   apiVars>>

NextValidate == Validate

SpecValidate == InitValidate /\ [][NextValidate]_vars

\* The response carries an error object with a code, and that code.
HasErrorCode(resp, c) ==
    /\ resp.json.kind = "object"
    /\ "error" \in DOMAIN resp.json.val
    /\ "code" \in DOMAIN resp.json.val.error
    /\ resp.json.val.error.code = c

IsSentinel(resp) ==
    resp.status_code = 400 /\ HasErrorCode(resp, RESOURCE_NOT_FOUND_CODE)

HasOkErrorCode(resp, ok_codes) == \E c \in Range(ok_codes) : HasErrorCode(resp, c)

\* C1: every response with status 400 and error code 283 makes
\* _validate_response raise ResourceNotFoundError, whatever ok_error_codes is,
\* also when it contains 283.
C1_SentinelTakesPrecedence ==
    (validated # NotRun /\ IsSentinel(response))
        => validated.exc = "ResourceNotFoundError"

\* C2: for every response with a status in 200..204 _validate_response returns
\* the ValidatedResponse of that response and raises nothing, whatever the body
\* and whatever ok_error_codes.
C2_OkStatusNeverRaises ==
    (validated # NotRun /\ response.status_code \in 200..204)
        => validated = Returned(ValidatedResponse(response.status_code,
                                                  response.headers,
                                                  ParsedBody(response)))

C2_Witness ==
    /\ validated.exc = "None"
    /\ response.status_code = 204
    /\ response.json.kind = "list"
    /\ response.json.val # <<>>
    /\ ok_error_codes # <<>>

\* C3: a response, other than the 400/283 sentinel, whose body has an error
\* object with a code that is in ok_error_codes is returned, and the returned
\* body is the parsed body of the response, unchanged.
C3_OkCodeReturnsBody ==
    (/\ validated # NotRun
     /\ HasOkErrorCode(response, ok_error_codes)
     /\ ~IsSentinel(response))
        => /\ validated.exc = "None"
           /\ validated.value.body = response.json
           /\ validated.value.status_code = response.status_code

C3_Witness ==
    /\ validated.exc = "None"
    /\ response.status_code = 401
    /\ HasErrorCode(response, TWO_FACTOR_ERROR_CODE)
    /\ "access_token" \in DOMAIN response.json.val
    /\ ok_error_codes = <<RESOURCE_NOT_FOUND_CODE, TWO_FACTOR_ERROR_CODE>>

\* C4: a response that has no status in 200..204, no error code of
\* ok_error_codes and is not the 400/283 sentinel makes _validate_response
\* raise HttpCodeError and nothing else, whatever its body (empty, a list, an
\* object without an error entry).
C4_FallbackIsHttpCodeError ==
    (/\ validated # NotRun
     /\ response.status_code \notin 200..204
     /\ ~HasOkErrorCode(response, ok_error_codes)
     /\ ~IsSentinel(response))
        => validated.exc = "HttpCodeError"

-----------------------------------------------------------------------------
(* An ApiClient under any sequence of its operations *)

DeviceIds == {"dev1", "dev2"}

\* What str(getrandbits(64)) may give.
SessionIds == {"sid1", "sid2"}

\* The responses the client's calls are answered with: one that is accepted
\* and one that is refused.
ClientResponses ==
    {[status_code |-> 200, headers |-> EmptyDict,
      json |-> [kind |-> "object", val |-> [access_token |-> "tok1"]]],
     [status_code |-> 400, headers |-> EmptyDict,
      json |-> [kind |-> "object",
                val |-> [error |-> [code |-> RESOURCE_NOT_FOUND_CODE,
                                    message |-> "msg"]]]]}

ClientNets == {NetResponse(r) : r \in ClientResponses} \cup {NetFailure}

\* The methods callers pass: the four the client knows and one it does not.
CallMethods == HttpMethods \cup {"PATCH"}

\* An answer the validator turns into HttpCodeError.
ServerErrorNet ==
    NetResponse([status_code |-> 500, headers |-> EmptyDict, json |-> InvalidJson])

InitClient ==
    /\ \E token \in {None, "tok1"}, dev \in {None, "dev1"}, sid \in SessionIds :
          api_client = ApiClient(token, dev, sid)
    /\ sent = <<>>
    /\ last_call = NotRun
    /\ IdleValidate
    /\ IdleLogin
    /\ IdleApi
    /\ IdleDeserialize

UpdateAccessToken ==
    /\ \E token \in AccessTokens : api_client' = update_access_token(api_client, token)
    /\ UNCHANGED <<validateVars, apiVars, sent, last_call, loginVars>>

UpdateDeviceId ==
    /\ \E dev \in DeviceIds : api_client' = update_device_id(api_client, dev)
    /\ UNCHANGED <<validateVars, apiVars, sent, last_call, loginVars>>

UpdateSessionId ==
    /\ \E sid \in SessionIds : api_client' = update_session_id(api_client, sid)
    /\ UNCHANGED <<validateVars, apiVars, sent, last_call, loginVars>>

CallApi ==
    /\ \E method \in CallMethods,
          header_params \in {EmptyDict, ("venmo-otp-secret" :> "sec1")},
          body \in {EmptyDict, [via |-> "sms"]},
          ok_codes \in {<<TWO_FACTOR_ERROR_CODE>>},
          net \in ClientNets \cup {ServerErrorNet} :
          LET r == call_api(api_client, "/me", method, header_params, EmptyDict,
                            body, ok_codes, net)
          IN  last_call' = [exc |-> r.outcome.exc,
                            value |-> r.outcome.value,
                            method |-> method,
                            sent |-> r.sent]
    /\ UNCHANGED <<validateVars, apiVars, api_client, sent, loginVars>>

NextClient ==
    \/ UpdateAccessToken
    \/ UpdateDeviceId
    \/ UpdateSessionId
    \/ CallApi

SpecClient == InitClient /\ [][NextClient]_vars

\* C5: call_api with a method other than GET, POST, PUT or DELETE raises
\* InvalidHttpMethodError, and that call has sent no request on the session.
C5_InvalidMethodSendsNothing ==
    (last_call # NotRun /\ last_call.method \notin {"GET", "POST", "PUT", "DELETE"})
        => /\ last_call.exc = "InvalidHttpMethodError"
           /\ last_call.sent = <<>>

C5_Witness ==
    /\ last_call # NotRun
    /\ last_call.method = "PATCH"
    /\ last_call.exc = "InvalidHttpMethodError"
    /\ "Authorization" \in DOMAIN api_client.session.headers

\* C26: a call of call_api sends at most one request, whether it returns or
\* raises HttpCodeError, ResourceNotFoundError or a transport failure, and
\* exactly one when its method is one the client knows.
C26_OneRequestPerCall ==
    last_call # NotRun
        => /\ Len(last_call.sent) <= 1
           /\ last_call.method \in HttpMethods => Len(last_call.sent) = 1

\* A call whose answer the validator refused with HttpCodeError.
C26_Witness ==
    /\ last_call # NotRun
    /\ last_call.exc = "HttpCodeError"
    /\ last_call.method = "DELETE"
    /\ Len(last_call.sent) = 1

-----------------------------------------------------------------------------
(* One run of AuthenticationApi.login_with_credentials_cli *)

\* The answers of the upstream service during a login.
FlowBodies ==
    {InvalidJson, EmptyObjectBody, [kind |-> "list", val |-> <<"item">>]}
    \cup {[kind |-> "object", val |-> [error |-> e]] : e \in ErrorObjects}
    \cup {[kind |-> "object", val |-> [error |-> e, access_token |-> "tok1"]] :
            e \in ErrorObjects}
    \cup {[kind |-> "object", val |-> [access_token |-> t]] : t \in AccessTokens}

FlowStatuses == {200, 201, 400, 500}

\* The credential exchange is the one call whose response headers are read.
CredentialNets ==
    {NetResponse(r) :
        r \in [status_code : FlowStatuses, headers : ResponseHeaders,
               json : FlowBodies]}
    \cup {NetFailure}

FlowNets ==
    {NetResponse(r) :
        r \in [status_code : FlowStatuses, headers : {EmptyDict}, json : FlowBodies]}
    \cup {NetFailure}

\* What the user types at the prompt, character by character.
OtpInputs ==
    {<<>>,
     <<"1", "2", "3", "4", "5">>,
     <<"1", "2", "3", "4", "5", "6">>,
     <<"1", "2", "a", "4", "5", "6">>,
     <<"1", "2", "3", "4", "5", "6", "7">>}

\* An ApiClient, with or without a token of an earlier login, handed to a new
\* AuthenticationApi together with a device id or none.
InitLogin ==
    /\ \E token \in {None, "tok0"}, dev \in {None, "dev1"} :
          /\ api_client = AuthenticationApiClient(ApiClient(token, dev, "sid1"), dev)
          /\ auth_device_id = AuthDeviceId(dev)
          /\ token_at_start = token
    /\ pc = "start"
    /\ cred_response = EmptyDict
    /\ otp_secret = None
    /\ user_otp = <<>>
    /\ flow_token = None
    /\ login_result = NotRun
    /\ outcomes = <<>>
    /\ last_net = EmptyDict
    /\ sent = <<>>
    /\ last_call = NotRun
    /\ IdleValidate
    /\ IdleApi
    /\ IdleDeserialize

\* An exception leaves login_with_credentials_cli.
Fails(exc) ==
    /\ pc' = "failed"
    /\ login_result' = Raised(exc)

\* One request and its answer, as the history keeps them.
Exchanged(r, net) ==
    /\ sent' = sent \o r.sent
    /\ outcomes' = outcomes \o [i \in DOMAIN r.sent |-> r.outcome.exc]
    /\ last_net' = net

\* Lines 51-58 and 120-125: the credential exchange, then the direct return
\* or the way into the two-factor process.
LoginCredentials ==
    /\ pc = "start"
    /\ \E net \in CredentialNets :
          LET r == authenticate_using_username_password(api_client, "user", "pw", net)
              resp == r.outcome.value
          IN  /\ Exchanged(r, net)
              /\ IF r.outcome.exc # "None"
                 THEN /\ Fails(r.outcome.exc)
                      /\ UNCHANGED <<cred_response, otp_secret>>
                 ELSE /\ cred_response' = resp
                      /\ IF BodyGetRaises(resp.body)
                         THEN Fails("AttributeError") /\ UNCHANGED otp_secret
                         ELSE IF BodyHasError(resp.body)
                         THEN IF OtpSecretMissing(HeaderOtpSecret(resp.headers))
                              THEN /\ Fails("AuthenticationFailedError")
                                   /\ otp_secret' = HeaderOtpSecret(resp.headers)
                              ELSE /\ otp_secret' = HeaderOtpSecret(resp.headers)
                                   /\ pc' = "send_text_otp"
                                   /\ UNCHANGED login_result
                         ELSE /\ UNCHANGED otp_secret
                              /\ IF BodyAccessToken(resp.body).exc # "None"
                                 THEN Fails(BodyAccessToken(resp.body).exc)
                                 ELSE /\ pc' = "done"
                                      /\ login_result' = BodyAccessToken(resp.body)
    /\ UNCHANGED <<validateVars, apiVars, api_client, last_call, auth_device_id, user_otp,
                   flow_token, token_at_start>>

\* Line 127.
SendTextOtp ==
    /\ pc = "send_text_otp"
    /\ \E net \in FlowNets :
          LET r == send_text_otp(api_client, otp_secret, net)
          IN  /\ Exchanged(r, net)
              /\ IF r.outcome.exc # "None"
                 THEN Fails(r.outcome.exc)
                 ELSE pc' = "ask_otp" /\ UNCHANGED login_result
    /\ UNCHANGED <<validateVars, apiVars, api_client, last_call, auth_device_id,
                   cred_response, otp_secret, user_otp, flow_token, token_at_start>>

\* Line 128: one input() of the prompt loop; a refused input is asked again.
AskUserForOtp ==
    /\ pc = "ask_otp"
    /\ \E otp \in OtpInputs :
          IF OtpRefused(otp)
          THEN UNCHANGED <<pc, user_otp>>
          ELSE pc' = "authenticate_using_otp" /\ user_otp' = otp
    /\ UNCHANGED <<validateVars, apiVars, api_client, last_call, sent, auth_device_id,
                   cred_response, otp_secret, flow_token, login_result,
                   token_at_start, outcomes, last_net>>

\* Lines 130-133.
AuthenticateUsingOtp ==
    /\ pc = "authenticate_using_otp"
    /\ \E net \in FlowNets :
          LET r == authenticate_using_otp(api_client, user_otp, otp_secret, net)
          IN  /\ Exchanged(r, net)
              /\ IF r.outcome.exc # "None"
                 THEN /\ Fails(r.outcome.exc)
                      /\ UNCHANGED <<api_client, flow_token>>
                 ELSE /\ flow_token' = r.outcome.value
                      /\ api_client' = update_access_token(api_client, r.outcome.value)
                      /\ pc' = "trust_this_device"
                      /\ UNCHANGED login_result
    /\ UNCHANGED <<validateVars, apiVars, last_call, auth_device_id, cred_response,
                   otp_secret, user_otp, token_at_start>>

\* Lines 56 and 60-63.
TrustThisDevice ==
    /\ pc = "trust_this_device"
    /\ \E net \in FlowNets :
          LET r == trust_this_device(api_client, auth_device_id, None, net)
          IN  /\ Exchanged(r, net)
              /\ IF r.outcome.exc # "None"
                 THEN Fails(r.outcome.exc)
                 ELSE pc' = "done" /\ login_result' = Returned(flow_token)
    /\ UNCHANGED <<validateVars, apiVars, api_client, last_call, auth_device_id,
                   cred_response, otp_secret, user_otp, flow_token, token_at_start>>

NextLogin ==
    \/ LoginCredentials
    \/ SendTextOtp
    \/ AskUserForOtp
    \/ AuthenticateUsingOtp
    \/ TrustThisDevice

SpecLogin == InitLogin /\ [][NextLogin]_vars

\* The requests of the flow, told apart by what they carry.
IsCredentialExchange(q) ==
    /\ q.method = "POST"
    /\ q.url = <<HOST, "/oauth/access_token">>
    /\ "password" \in DOMAIN q.json

IsOtpDelivery(q) ==
    q.method = "POST" /\ q.url = <<HOST, "/account/two-factor/token">>

IsOtpExchange(q) ==
    /\ q.method = "POST"
    /\ q.url = <<HOST, "/oauth/access_token">>
    /\ "venmo-otp" \in DOMAIN q.headers

IsTrustedDevice(q) == q.method = "POST" /\ q.url = <<HOST, "/users/devices">>

HasHeader(q, name, v) == name \in DOMAIN q.headers /\ q.headers[name] = v

\* The credential exchange returned a response to the flow, and its body ...
CredReturned == cred_response # EmptyDict /\ cred_response.body.kind = "object"
\* ... has an error entry
CredHasError == CredReturned /\ "error" \in DOMAIN cred_response.body.val
\* ... has no error entry and has an access_token.
CredHasTokenOnly ==
    /\ CredReturned
    /\ "error" \notin DOMAIN cred_response.body.val
    /\ "access_token" \in DOMAIN cred_response.body.val

Count(P(_)) == Cardinality({i \in DOMAIN sent : P(sent[i])})

\* C6: when the response the credential exchange hands to the flow has a body
\* with no error entry and with an access_token, the flow has returned exactly
\* that token and the credential exchange is the only request of the login.
C6_DirectLoginOneRequest ==
    CredHasTokenOnly
        => /\ pc = "done"
           /\ login_result = Returned(cred_response.body.val.access_token)
           /\ Len(sent) = 1
           /\ IsCredentialExchange(sent[1])
           /\ last_net.response.json = cred_response.body

C6_Witness ==
    /\ CredHasTokenOnly
    /\ pc = "done"
    /\ login_result = Returned("tok2")
    /\ token_at_start = "tok0"

\* C7: in the two-factor path the requests are, in this order, the credential
\* exchange, the OTP delivery carrying the secret of the credential response,
\* and the OTP exchange carrying that secret and the user's code; the OTP
\* exchange is sent only after the delivery call succeeded and a code was
\* entered, and a token is returned only after the OTP exchange.
C7_TwoFactorOrder ==
    /\ \A i \in DOMAIN sent :
          IsOtpDelivery(sent[i])
              => /\ i = 2
                 /\ IsCredentialExchange(sent[1])
                 /\ outcomes[1] = "None"
                 /\ CredHasError
                 /\ TruthyStr(HeaderOtpSecret(cred_response.headers))
                 /\ HasHeader(sent[i], "venmo-otp-secret",
                              HeaderOtpSecret(cred_response.headers))
    /\ \A i \in DOMAIN sent :
          IsOtpExchange(sent[i])
              => /\ i = 3
                 /\ IsOtpDelivery(sent[2])
                 /\ outcomes[2] = "None"
                 /\ ~OtpRefused(user_otp)
                 /\ HasHeader(sent[i], "venmo-otp", user_otp)
                 /\ HasHeader(sent[i], "venmo-otp-secret",
                              HeaderOtpSecret(cred_response.headers))
    /\ (CredHasError /\ login_result.exc = "None")
          => /\ Len(sent) >= 3
             /\ IsOtpExchange(sent[3])
             /\ outcomes[3] = "None"
             /\ login_result.value = flow_token

C7_Witness ==
    /\ CredHasError
    /\ pc = "done"
    /\ login_result = Returned("tok2")
    /\ Len(sent) = 4
    /\ HasHeader(sent[3], "venmo-otp-secret", "sec2")

C9_DeliveryFailureIsAuthenticationFailed ==
    (/\ Len(sent) = 2
     /\ IsOtpDelivery(sent[2])
     /\ last_net.kind = "response"
     /\ last_net.response.status_code # 200)
        => outcomes[2] = "AuthenticationFailedError"

\* C10: after a successful OTP exchange the client's access token is set to
\* the exchanged token before the trusted-device request is sent, so that this
\* request carries the new bearer token and the device id of the flow; it is
\* sent once in a two-factor login and never in a direct one.
C10_TrustAfterTokenUpdate ==
    /\ pc = "trust_this_device"
          => /\ Len(sent) = 3
             /\ IsOtpExchange(sent[3])
             /\ flow_token = last_net.response.json.val.access_token
             /\ api_client.access_token = flow_token
             /\ Count(IsTrustedDevice) = 0
    /\ \A i \in DOMAIN sent :
          IsTrustedDevice(sent[i])
              => /\ i = 4
                 /\ IsOtpExchange(sent[3])
                 /\ outcomes[3] = "None"
                 /\ api_client.access_token = flow_token
                 /\ HasHeader(sent[i], "Authorization", Bearer(flow_token))
                 /\ HasHeader(sent[i], "device-id", auth_device_id)
                 /\ api_client.device_id = auth_device_id
    /\ (pc \in {"done", "failed"} /\ Len(outcomes) >= 3 /\ outcomes[3] = "None")
          => Count(IsTrustedDevice) = 1
    /\ ~CredHasError => Count(IsTrustedDevice) = 0

C10_Witness ==
    /\ pc = "done"
    /\ Len(sent) = 4
    /\ IsTrustedDevice(sent[4])
    /\ token_at_start = "tok0"
    /\ flow_token = "tok2"
    /\ auth_device_id = RandomDeviceId

\* C23: the code the flow passes to the OTP exchange is a string of exactly
\* six decimal digits; the prompt lets no shorter, longer or non-numeric
\* string through.
C23_OtpIsSixDigits ==
    \A i \in DOMAIN sent :
        IsOtpExchange(sent[i])
            => /\ Len(sent[i].headers["venmo-otp"]) = OTP_LENGTH
               /\ IsDigit(sent[i].headers["venmo-otp"])

\* The flow failed before it had a token: at the credential exchange, for
\* want of an OTP secret, at the OTP delivery or at the OTP exchange.
FailedBeforeToken == pc = "failed" /\ flow_token = None

\* C24: when a step of the flow fails before a token is obtained, the
\* failure leaves login_with_credentials_cli as an exception, the client's
\* access token and Authorization header are as before the attempt, no
\* trusted-device request was sent, and no step was made twice.
C24_FailureBeforeTokenChangesNothing ==
    FailedBeforeToken
        => /\ login_result.exc \notin {"None", "NotRun"}
           /\ login_result.value = EmptyDict
           /\ api_client.access_token = token_at_start
           /\ IF token_at_start = None
              THEN "Authorization" \notin DOMAIN api_client.session.headers
              ELSE HasHeader(api_client.session, "Authorization", Bearer(token_at_start))
           /\ Count(IsTrustedDevice) = 0
           /\ Count(IsCredentialExchange) = 1
           /\ Count(IsOtpDelivery) <= 1
           /\ Count(IsOtpExchange) <= 1
           /\ Len(sent) <= 3
           /\ outcomes[Len(sent)] \in {"None", login_result.exc}

\* The OTP exchange was refused, the client holding a token of an earlier
\* login.
C24_Witness ==
    /\ FailedBeforeToken
    /\ Len(sent) = 3
    /\ IsOtpExchange(sent[3])
    /\ login_result = Raised("HttpCodeError")
    /\ token_at_start = "tok0"

\* C25: when the flow has returned a token, by the direct path as by the
\* two-factor path, the client of the flow holds that token as its
\* access_token.
C25_ClientHoldsReturnedToken ==
    (pc = "done" /\ login_result.exc = "None")
        => api_client.access_token = login_result.value

\* C29: whenever the flow ends in a failure the client's access token is the
\* one it had before the attempt, a failure of the trusted-device request
\* after a successful OTP exchange included.
C29_FailedLoginKeepsToken ==
    pc = "failed" => api_client.access_token = token_at_start

-----------------------------------------------------------------------------
(* An ApiClient of either module under any sequence of its operations, the   *)
(* callback variant of call_api included                                     *)

\* How many threads started by call_api may be waiting to run.
MaxThreads == 1

\* The client is an instance of the class of utils/api_client.py, the one
\* whose call_api takes a callback.
IsUtilsClient(c) == "last_response" \in DOMAIN c

\* method and body of the calls: a GET without a body, a POST with one.
CallBodies == ("GET" :> EmptyDict) @@ ("POST" :> [note |-> "hi"])

CallHeaderParams == {EmptyDict, ("venmo-otp-secret" :> "sec1")}

\* The latest call that ran: what it did, and the client's identity when it
\* built its request.
CallRecord(r, method, callback, c) ==
    [exc |-> r.outcome.exc, value |-> r.outcome.value, method |-> method,
     sent |-> r.sent, callback |-> callback, handed |-> r.handed,
     access_token |-> c.access_token, device_id |-> c.device_id,
     _session_id |-> c._session_id]

InitCallback ==
    /\ \E token \in {None, "tok1"}, dev \in {None, "dev1"}, sid \in SessionIds :
          api_client \in {ApiClient(token, dev, sid), utils_ApiClient(token, dev, sid)}
    /\ threads = <<>>
    /\ sessions = <<>>
    /\ sent = <<>>
    /\ last_call = NotRun
    /\ page = EmptyDict
    /\ payment_api = EmptyDict
    /\ client = EmptyDict
    /\ IdleValidate
    /\ IdleLogin
    /\ IdleDeserialize

callbackQuiet == <<validateVars, loginVars, sent, sessions, page, payment_api,
                   client, deserializeVars>>

ClientUpdateAccessToken ==
    /\ \E token \in AccessTokens :
          api_client' = IF IsUtilsClient(api_client)
                        THEN utils_update_access_token(api_client, token)
                        ELSE update_access_token(api_client, token)
    /\ UNCHANGED <<callbackQuiet, threads, last_call>>

ClientUpdateDeviceId ==
    /\ \E dev \in DeviceIds :
          api_client' = IF IsUtilsClient(api_client)
                        THEN utils_update_device_id(api_client, dev)
                        ELSE update_device_id(api_client, dev)
    /\ UNCHANGED <<callbackQuiet, threads, last_call>>

ClientUpdateSessionId ==
    /\ \E sid \in SessionIds :
          api_client' = IF IsUtilsClient(api_client)
                        THEN utils_update_session_id(api_client, sid)
                        ELSE update_session_id(api_client, sid)
    /\ UNCHANGED <<callbackQuiet, threads, last_call>>

\* call_api without a callback, of either class.
ClientCallApi ==
    /\ \E method \in DOMAIN CallBodies, header_params \in CallHeaderParams,
          net \in ClientNets :
          LET ok_codes == <<TWO_FACTOR_ERROR_CODE>>
              q == call_api(api_client, "/me", method, header_params, EmptyDict,
                            CallBodies[method], ok_codes, net)
              r == IF IsUtilsClient(api_client)
                   THEN utils___call_api(api_client, "/me", method, header_params,
                                         EmptyDict, CallBodies[method], None,
                                         ok_codes, net)
                   ELSE CallApiResult(q.sent, q.outcome, api_client, Unset)
          IN  /\ api_client' = r.client
              /\ last_call' = CallRecord(r, method, None, api_client)
    /\ UNCHANGED <<callbackQuiet, threads>>

\* call_api with a callback: the thread is started and call_api returns it.
StartThread ==
    /\ IsUtilsClient(api_client)
    /\ Len(threads) < MaxThreads
    /\ \E method \in DOMAIN CallBodies, header_params \in CallHeaderParams :
          threads' = Append(threads,
                            utils_call_api_Thread("/me", method, header_params,
                                                  EmptyDict, CallBodies[method],
                                                  "callback"))
    /\ UNCHANGED <<callbackQuiet, api_client, last_call>>

\* A started thread runs __call_api.
RunThread ==
    /\ \E i \in DOMAIN threads, net \in ClientNets :
          LET t == threads[i]
              r == utils___call_api(api_client, t.resource_path, t.method,
                                    t.header_params, t.params, t.body,
                                    t.callback, t.ok_error_codes, net)
          IN  /\ api_client' = r.client
              /\ last_call' = CallRecord(r, t.method, t.callback, api_client)
              /\ threads' = [j \in 1..(Len(threads) - 1) |->
                                IF j < i THEN threads[j] ELSE threads[j + 1]]
    /\ UNCHANGED callbackQuiet

NextCallback ==
    \/ ClientUpdateAccessToken
    \/ ClientUpdateDeviceId
    \/ ClientUpdateSessionId
    \/ ClientCallApi
    \/ StartThread
    \/ RunThread

SpecCallback == InitCallback /\ [][NextCallback]_vars

\* C11: once the client's access_token is set, every request it sends carries
\* Authorization: Bearer <the token the client holds when the request is
\* built>, whatever updates and calls came before, without a callback and
\* with one.
C11_BearerOnEveryRequest ==
    (last_call # NotRun /\ TruthyStr(last_call.access_token))
        => \A i \in DOMAIN last_call.sent :
              HasHeader(last_call.sent[i], "Authorization",
                        Bearer(last_call.access_token))

C11_Witness ==
    /\ last_call # NotRun
    /\ last_call.callback = "callback"
    /\ last_call.access_token = "tok2"
    /\ Len(last_call.sent) = 1
    /\ last_call.handed # Unset
    /\ last_call.handed.status_code = 200

\* C12: every request of a client carries X-Session-ID with the client's
\* current session id and, once the device id is set, device-id with the
\* current device id, the requests of the callback variant included.
C12_IdentityHeadersOnEveryRequest ==
    last_call # NotRun
        => \A i \in DOMAIN last_call.sent :
              /\ HasHeader(last_call.sent[i], "X-Session-ID", last_call._session_id)
              /\ TruthyStr(last_call.device_id)
                    => HasHeader(last_call.sent[i], "device-id", last_call.device_id)

\* Both the headers of the live session and default_headers hold v under name.
InBothHeaders(c, name, v) ==
    /\ HasHeader(c.session, name, v)
    /\ HasHeader([headers |-> c.default_headers], name, v)

\* C28: after any sequence of update_access_token, update_device_id and
\* update_session_id, of either ApiClient, the headers of the live session
\* and default_headers both hold the current value of each identity field
\* that has been set.
C28_IdentityInSessionAndDefaults ==
    /\ TruthyStr(api_client.access_token)
          => InBothHeaders(api_client, "Authorization", Bearer(api_client.access_token))
    /\ TruthyStr(api_client.device_id)
          => InBothHeaders(api_client, "device-id", api_client.device_id)
    /\ TruthyStr(api_client._session_id)
          => InBothHeaders(api_client, "X-Session-ID", api_client._session_id)

-----------------------------------------------------------------------------
(* One retrieval by a UserApi, and the pages that follow it *)

\* How many requests a retrieval and its next-page calls may send.
MaxRequests == 3

\* The client of a finished login.
LoggedInClient == ApiClient("tok1", "dev1", "sid1")

\* The users the upstream knows, with an entry that is no field of User.
UserJson(id) == JObject([id |-> id, username |-> <<"a", "l">>, about |-> "hi"])
UserList(n) == [i \in 1..n |-> UserJson(<<"u1", "u2", "u3">>[i])]

Answer(status, body) ==
    NetResponse([status_code |-> status, headers |-> EmptyDict, json |-> body])

NotFoundAnswer ==
    Answer(400, JObject([error |-> [code |-> RESOURCE_NOT_FOUND_CODE,
                                    message |-> "Resource not found."]]))

\* The answers to a request of UserApi: a list of zero to two users, one
\* user, a body without data, the 400/283 sentinel, a transport failure.
UserNets ==
    {Answer(200, JObject([data |-> JList(UserList(n))])) : n \in 0..2}
    \cup {Answer(200, JObject([data |-> UserJson("u1")])),
          Answer(200, EmptyObjectBody),
          NotFoundAnswer, NetFailure}

Queries == {<<"a", "l">>, <<"@", "a", "l">>}
PageLimits == {2, 3}
StartOffsets == {0, 1}

InitUser ==
    /\ api_client = LoggedInClient
    /\ pc = "start"
    /\ page = EmptyDict
    /\ sent = <<>>
    /\ outcomes = <<>>
    /\ last_call = NotRun
    /\ last_net = EmptyDict
    /\ auth_device_id = None
    /\ cred_response = EmptyDict
    /\ otp_secret = None
    /\ user_otp = <<>>
    /\ flow_token = None
    /\ login_result = NotRun
    /\ token_at_start = None
    /\ threads = <<>>
    /\ sessions = <<>>
    /\ payment_api = EmptyDict
    /\ client = EmptyDict
    /\ IdleValidate
    /\ IdleDeserialize

userQuiet == <<validateVars, deserializeVars, api_client, auth_device_id,
               cred_response, otp_secret, user_otp, flow_token, login_result,
               token_at_start, threads, sessions, payment_api, client>>

\* A call of UserApi ran: its requests, what it gave, and the page the caller
\* holds from now on.
Retrieved(op, r, net) ==
    /\ sent' = sent \o r.sent
    /\ outcomes' = outcomes \o
          [i \in DOMAIN r.sent |->
              [exc |-> r.outcome.exc,
               length |-> IF r.outcome.exc = "None" /\ IsPage(r.outcome.value)
                          THEN Len(r.outcome.value.items) ELSE 0]]
    /\ last_net' = net
    /\ last_call' = [op |-> op, exc |-> r.outcome.exc, value |-> r.outcome.value]
    /\ IF r.outcome.exc = "None" /\ IsPage(r.outcome.value)
       THEN page' = r.outcome.value /\ pc' = "paging"
       ELSE page' = page /\ pc' = IF pc = "start" THEN "done" ELSE pc

SearchForUsers ==
    /\ pc = "start"
    /\ \E query \in Queries, offset \in StartOffsets, limit \in PageLimits,
          username \in BOOLEAN, net \in UserNets :
          Retrieved("search_for_users",
                    search_for_users(api_client, query, offset, limit, username, net),
                    net)
    /\ UNCHANGED userQuiet

GetUserFriendsList ==
    /\ pc = "start"
    /\ \E offset \in StartOffsets, limit \in PageLimits, net \in UserNets :
          Retrieved("get_user_friends_list",
                    get_user_friends_list(api_client, "u9", offset, limit, net),
                    net)
    /\ UNCHANGED userQuiet

GetUser ==
    /\ pc = "start"
    /\ \E net \in UserNets :
          Retrieved("get_user", get_user(api_client, "u1", net), net)
    /\ UNCHANGED userQuiet

GetNextPage ==
    /\ pc = "paging"
    /\ page.method # None
    /\ Len(sent) < MaxRequests
    /\ \E net \in UserNets :
          Retrieved("get_next_page", get_next_page(api_client, page, net), net)
    /\ UNCHANGED userQuiet

NextUser ==
    \/ SearchForUsers
    \/ GetUserFriendsList
    \/ GetUser
    \/ GetNextPage

SpecUser == InitUser /\ [][NextUser]_vars

\* The requests before the i-th that gave the caller a page.
PagesBefore(i) == Cardinality({j \in 1..(i - 1) : outcomes[j].exc = "None"})

IsPaged(q) == "offset" \in DOMAIN q.params

\* C13: in a retrieval with page limit N, every request asks for N entries and
\* its offset is the starting offset plus N for every page obtained before it,
\* whatever the number of items those pages held.
C13_NextPageAdvancesByLimit ==
    \A i \in DOMAIN sent :
        IsPaged(sent[i])
            => /\ sent[i].params.limit = sent[1].params.limit
               /\ sent[i].params.offset =
                     sent[1].params.offset + PagesBefore(i) * sent[1].params.limit

C13_Witness ==
    /\ Len(sent) = 3
    /\ sent[1].params.offset = 0
    /\ sent[1].params.limit = 3
    /\ outcomes[1] = [exc |-> "None", length |-> 1]
    /\ outcomes[2] = [exc |-> "None", length |-> 2]
    /\ sent[2].params.offset = 3
    /\ sent[3].params.offset = 6
    /\ last_call.op = "get_next_page"

\* C14: every next-page request has the url and the parameters of the request
\* that produced the first page, but for the offset.
C14_NextPageKeepsFilters ==
    \A i \in DOMAIN sent :
        IsPaged(sent[i])
            => /\ sent[i].url = sent[1].url
               /\ [sent[i].params EXCEPT !.offset = 0]
                     = [sent[1].params EXCEPT !.offset = 0]

\* C19: get_user answered with status 400 and error code 283 returns None and
\* raises nothing.
C19_GetUserNotFoundIsNone ==
    (/\ last_call # NotRun
     /\ last_call.op = "get_user"
     /\ last_net = NotFoundAnswer)
        => /\ last_call.exc = "None"
           /\ last_call.value = NoneObject

-----------------------------------------------------------------------------
(* A PaymentApi and one call of it *)

MyProfile == [class |-> "User", id |-> "u0", username |-> <<"m", "e">>, phone |-> None]

PaymentJson == JObject([id |-> "p1", status |-> "settled", note |-> "hi"])

\* data of the answers to a payment creation: a payment, an error code
\* (13006, another one, an empty one) with and without a payment, neither.
PaymentDatas ==
    {[payment |-> PaymentJson], EmptyDict}
    \cup {[error_code |-> code, title |-> "Error", error_msg |-> "msg"] :
            code \in {not_enough_balance_error, 1, 0}}
    \cup {[error_code |-> code, payment |-> PaymentJson] :
            code \in {not_enough_balance_error, 1, 0}}

RefusedAnswer == Answer(400, JObject([error |-> [code |-> 1, message |-> "msg"]]))

PaymentNets ==
    {Answer(200, JObject([data |-> JObject(d)])) : d \in PaymentDatas}
    \cup {Answer(200, JObject([data |-> JNull])), Answer(200, InvalidJson),
          RefusedAnswer, NetFailure}

MethodJson == JObject([id |-> "m1", peer_payment_role |-> "default"])
MethodNets ==
    {Answer(200, JObject([data |-> JList(<<MethodJson>>)])),
     Answer(200, JObject([data |-> JList(<<>>)]))}

EligibilityNets ==
    {Answer(200, JObject([data |-> JObject([eligibility_token |-> "elig1"])])),
     RefusedAnswer}

\* The answers to a payment update: a status, and a body with no error, with
\* an error of each code, with an error without a code.
UpdateNets ==
    {Answer(status, JObject(o)) :
        status \in {200, 400},
        o \in {[data |-> JObject([id |-> "p1"])]}
              \cup {[error |-> [code |-> code, message |-> "msg"]] :
                       code \in Range(_payment_error_codes) \cup {1}}
              \cup {[error |-> [title |-> "Error"]]}}
    \cup {NetFailure}

TransferJson == JObject([id |-> "t1", amount_cents |-> 1250])
TransferNets == {Answer(200, JObject([data |-> TransferJson])), RefusedAnswer, NetFailure}

\* Amounts in thousandths of a dollar: 12.50, 12.504, -3.00.
Amounts == {12500, 12504, -3000}
Balances == {NoAmount, {0}, {7006}}

InitPayment ==
    /\ api_client = LoggedInClient
    /\ \E balance \in Balances : payment_api = PaymentApi(MyProfile, balance)
    /\ last_call = NotRun
    /\ sent = <<>>
    /\ threads = <<>>
    /\ sessions = <<>>
    /\ page = EmptyDict
    /\ client = EmptyDict
    /\ IdleLogin
    /\ IdleValidate
    /\ IdleDeserialize

paymentQuiet == <<validateVars, deserializeVars, api_client, payment_api, sent,
                  auth_device_id, pc, cred_response, otp_secret, user_otp,
                  flow_token, login_result, token_at_start, outcomes, threads, sessions,
                  page, client>>

\* A call of PaymentApi ran; net is the answer to its last request.
Called(op, amount, r, net) ==
    /\ last_call' = [op |-> op, amount |-> amount, exc |-> r.outcome.exc,
                     value |-> r.outcome.value, sent |-> r.sent]
    /\ last_net' = net

SendMoney ==
    /\ \E amount \in Amounts, funding_source_id \in {None, "fs1"},
          methods \in MethodNets, eligibility \in EligibilityNets,
          payment \in PaymentNets :
          Called("send_money", {amount},
                 send_money(api_client, amount, "hi", "u1", funding_source_id, "uuid1",
                            [methods |-> methods, eligibility |-> eligibility,
                             payment |-> payment]),
                 payment)
    /\ UNCHANGED paymentQuiet

RequestMoney ==
    /\ \E amount \in Amounts, payment \in PaymentNets :
          Called("request_money", {amount},
                 request_money(api_client, amount, "hi", "u1", "uuid1",
                               [methods |-> NetFailure, eligibility |-> NetFailure,
                                payment |-> payment]),
                 payment)
    /\ UNCHANGED paymentQuiet

RemindPayment ==
    /\ \E net \in UpdateNets :
          Called("remind_payment", NoAmount, remind_payment(api_client, "p1", net), net)
    /\ UNCHANGED paymentQuiet

CancelPayment ==
    /\ \E net \in UpdateNets :
          Called("cancel_payment", NoAmount, cancel_payment(api_client, "p1", net), net)
    /\ UNCHANGED paymentQuiet

InitiateTransfer ==
    /\ \E amount \in {NoAmount} \cup {{a} : a \in Amounts}, net \in TransferNets :
          Called("initiate_transfer", amount,
                 initiate_transfer(api_client, payment_api, "d1", amount,
                                   "standard", net),
                 net)
    /\ UNCHANGED paymentQuiet

\* The answers to GET /payments: a list of payments, an empty one, a refusal.
PaymentListNets ==
    {Answer(200, JObject([data |-> JList(l)])) : l \in {<<>>, <<PaymentJson, PaymentJson>>}}
    \cup {RefusedAnswer}

GetPaymentMethods ==
    /\ \E net \in MethodNets \cup {RefusedAnswer} :
          Called("get_payment_methods", NoAmount,
                 get_payment_methods(api_client, net), net)
    /\ UNCHANGED paymentQuiet

GetChargePayments ==
    /\ \E limit \in PageLimits, net \in PaymentListNets :
          Called("get_charge_payments", NoAmount,
                 _get_payments(api_client, payment_api, "charge", limit, net), net)
    /\ UNCHANGED paymentQuiet

NextPayment ==
    \/ GetPaymentMethods
    \/ GetChargePayments
    \/ SendMoney
    \/ RequestMoney
    \/ RemindPayment
    \/ CancelPayment
    \/ InitiateTransfer

SpecPayment == InitPayment /\ [][NextPayment]_vars

\* The latest call was send_money or request_money, its request for the
\* payment was sent and answered with status 200 and a data object.
PaymentAnswered ==
    /\ last_call # NotRun
    /\ last_call.op \in {"send_money", "request_money"}
    /\ last_call.sent # <<>>
    /\ last_call.sent[Len(last_call.sent)].url = <<HOST, "/payments">>
    /\ last_net.kind = "response"
    /\ last_net.response.status_code = 200
    /\ last_net.response.json.kind = "object"
    /\ "data" \in DOMAIN last_net.response.json.val
    /\ last_net.response.json.val.data.kind = "object"

AnsweredData == last_net.response.json.val.data.val

\* C15: a payment creation answered with status 200 and data.error_code 13006
\* raises NotEnoughBalanceError; with another error code that is not empty it
\* raises GeneralPaymentError; it returns a Payment, the one of data.payment,
\* only when data has no error code or an empty one.
C15_PaymentErrorCodes ==
    PaymentAnswered
        => /\ ("error_code" \in DOMAIN AnsweredData /\ AnsweredData.error_code = 13006)
                 => last_call.exc = "NotEnoughBalanceError"
           /\ ("error_code" \in DOMAIN AnsweredData
                  /\ AnsweredData.error_code \notin {13006, 0})
                 => last_call.exc = "GeneralPaymentError"
           /\ last_call.exc = "None"
                 => /\ ~("error_code" \in DOMAIN AnsweredData
                            /\ AnsweredData.error_code # 0)
                    /\ last_call.value.class = "Payment"
                    /\ last_call.value.id = AnsweredData.payment.val.id

C15_Witness ==
    /\ PaymentAnswered
    /\ last_call.op = "send_money"
    /\ Len(last_call.sent) = 2
    /\ "error_code" \in DOMAIN AnsweredData
    /\ AnsweredData.error_code = 13006
    /\ "payment" \in DOMAIN AnsweredData
    /\ last_call.exc = "NotEnoughBalanceError"

\* The answer to the latest call has an error object with the code c.
AnsweredErrorCode(c) ==
    last_net.kind = "response" /\ HasErrorCode(last_net.response, c)

\* C16: remind_payment raises AlreadyRemindedPaymentError for the error code
\* 2907 and NoPendingPaymentToUpdateError for each of 2901 and 2905, and
\* returns True only when the body has no error.
C16_RemindClassifiesByRegistry ==
    (last_call # NotRun /\ last_call.op = "remind_payment")
        => /\ AnsweredErrorCode(2907)
                 => last_call.exc = "AlreadyRemindedPaymentError"
           /\ (AnsweredErrorCode(2901) \/ AnsweredErrorCode(2905))
                 => last_call.exc = "NoPendingPaymentToUpdateError"
           /\ last_call.exc = "None"
                 => "error" \notin DOMAIN last_net.response.json.val

\* C17: initiate_transfer with an amount sends one transfer request for that
\* amount in cents; without an amount it sends one for the balance of the
\* PaymentApi; it raises ValueError only when there is neither.
C17_TransferAmount ==
    (last_call # NotRun /\ last_call.op = "initiate_transfer")
        => LET used == IF last_call.amount # NoAmount
                       THEN last_call.amount ELSE payment_api._balance
           IN  /\ used # NoAmount
                     => /\ Len(last_call.sent) = 1
                        /\ last_call.sent[1].url = <<HOST, "/transfers">>
                        /\ \A a \in used : last_call.sent[1].json.amount = Cents(a)
               /\ last_call.exc = "ValueError" => used = NoAmount

\* A retrieval of PaymentApi returned a Page to its caller.
ReturnedPage ==
    /\ last_call # NotRun
    /\ last_call.op \in {"get_payment_methods", "get_charge_payments"}
    /\ last_call.exc = "None"
    /\ IsPage(last_call.value)

\* C27: every Page a retrieval returns has its producing call recorded, so
\* that the next page can be asked of it; the payment list and the
\* payment-methods retrieval are among these retrievals.
C27_PageHasProducingCall ==
    ReturnedPage => last_call.value.method # None

-----------------------------------------------------------------------------
(* A `with Client.login(...) as client:` statement, from the moment *)
(* login_with_credentials_cli returned the token *)

\* How many calls the block makes on its client.
MaxBlockCalls == 2

AccountJson(balance) == JObject([user |-> UserJson("u0"), balance |-> balance])

\* The answers to GET /account: a profile with a balance (as a numeral, as
\* the number 0), a profile alone, no data, a refusal, a transport failure.
AccountNets ==
    {Answer(200, JObject([data |-> AccountJson(b)])) :
        b \in {JString("12.5"), JString("0.0"), JNumber(0)}}
    \cup {Answer(200, JObject([data |-> JObject([user |-> UserJson("u0")])])),
          Answer(200, EmptyObjectBody), RefusedAnswer, NetFailure}

\* The answers to the revocation request.
LogoutNets == {Answer(200, EmptyObjectBody), Answer(204, InvalidJson),
               RefusedAnswer, NetFailure}

\* Client.login stands before line 57: the flow returned a token, and stored
\* it in the client already when it went through the two-factor steps.
InitSession ==
    /\ \E token \in AccessTokens, dev \in DeviceIds, sid \in SessionIds :
          /\ login_result = Returned(token)
          /\ api_client \in {update_device_id(ApiClient(None, dev, sid), dev),
                             update_access_token(ApiClient(None, dev, sid), token)}
    /\ pc = "logged_in"
    /\ client = EmptyDict
    /\ payment_api = EmptyDict
    /\ sent = <<>>
    /\ outcomes = <<>>
    /\ last_call = NotRun
    /\ last_net = EmptyDict
    /\ auth_device_id = None
    /\ cred_response = EmptyDict
    /\ otp_secret = None
    /\ user_otp = <<>>
    /\ flow_token = None
    /\ token_at_start = None
    /\ threads = <<>>
    /\ sessions = <<>>
    /\ page = EmptyDict
    /\ IdleValidate
    /\ IdleDeserialize

sessionQuiet == <<validateVars, deserializeVars, auth_device_id, cred_response,
                  otp_secret, user_otp, flow_token, login_result,
                  token_at_start, threads, sessions, page>>

\* Lines 57-58 of Client.login and __enter__: the token is stored, the
\* Client is built, and the block starts unless the constructor raised.
ClientLogin ==
    /\ pc = "logged_in"
    /\ \E net1 \in AccountNets, net2 \in AccountNets :
          LET c == update_access_token(api_client, login_result.value)
              r == Client(c, net1, net2)
          IN  /\ api_client' = c
              /\ sent' = sent \o r.sent
              /\ last_net' = IF Len(r.sent) = 2 THEN net2 ELSE net1
              /\ last_call' = [op |-> "login", exc |-> r.outcome.exc]
              /\ IF r.outcome.exc = "None"
                 THEN /\ client' = r.outcome.value
                      /\ payment_api' = r.outcome.value.payment
                      /\ pc' = "block"
                 ELSE /\ UNCHANGED <<client, payment_api>>
                      /\ pc' = "failed"
    /\ UNCHANGED <<outcomes, sessionQuiet>>

\* A call of the block on its client ran; an exception ends the block.
BlockCalled(op, r, net) ==
    /\ sent' = sent \o r.sent
    /\ outcomes' = Append(outcomes, [op |-> op, exc |-> r.outcome.exc])
    /\ last_net' = net
    /\ client' = r.user
    /\ pc' = IF r.outcome.exc = "None" THEN "block" ELSE "raised"
    /\ UNCHANGED <<api_client, payment_api, last_call, sessionQuiet>>

ClientMyProfile ==
    /\ pc = "block"
    /\ Len(outcomes) < MaxBlockCalls
    /\ \E force_update \in BOOLEAN, net \in AccountNets :
          BlockCalled("my_profile",
                      my_profile(api_client, client, force_update, net), net)

ClientMyBalance ==
    /\ pc = "block"
    /\ Len(outcomes) < MaxBlockCalls
    /\ \E force_update \in BOOLEAN, net \in AccountNets :
          BlockCalled("my_balance",
                      my_balance(api_client, client, force_update, net), net)

\* The code of the block itself raises.
BlockRaises ==
    /\ pc = "block"
    /\ pc' = "raised"
    /\ outcomes' = Append(outcomes, [op |-> "block", exc |-> "Exception"])
    /\ UNCHANGED <<api_client, client, payment_api, sent, last_call, last_net,
                   sessionQuiet>>

\* The block reaches its end.
BlockEnds ==
    /\ pc = "block"
    /\ pc' = "ended"
    /\ UNCHANGED <<api_client, client, payment_api, sent, outcomes, last_call,
                   last_net, sessionQuiet>>

\* Client.__exit__, which returns None: an exception of the block goes on
\* after it, unless log_out raised one of its own.
ClientExit ==
    /\ pc \in {"ended", "raised"}
    /\ \E sid \in SessionIds, net \in LogoutNets :
          LET r == log_out_instance(api_client, sid, net)
          IN  /\ sent' = sent \o r.sent
              /\ last_net' = net
              /\ last_call' =
                    [op |-> "__exit__",
                     exc |-> IF r.outcome.exc # "None" THEN r.outcome.exc
                             ELSE IF pc = "raised"
                                  THEN outcomes[Len(outcomes)].exc
                                  ELSE "None"]
    /\ pc' = "closed"
    /\ UNCHANGED <<api_client, client, payment_api, outcomes, sessionQuiet>>

NextSession ==
    \/ ClientLogin
    \/ ClientMyProfile
    \/ ClientMyBalance
    \/ BlockRaises
    \/ BlockEnds
    \/ ClientExit

SpecSession == InitSession /\ [][NextSession]_vars

IsRevocation(q) == q.method = "DELETE" /\ q.url = <<HOST, "/oauth/access_token">>

Revocations == {i \in DOMAIN sent : IsRevocation(sent[i])}

\* C18: when the with block has ended, normally or by an exception raised
\* inside it, exactly one revocation request (DELETE /oauth/access_token) has
\* been issued, and it carries the stored access token of the client as its
\* bearer credential.
C18_ExitRevokesTokenOnce ==
    pc = "closed"
        => /\ Cardinality(Revocations) = 1
           /\ \A i \in Revocations :
                 HasHeader(sent[i], "Authorization", Bearer(api_client.access_token))

\* A block that made a call and then raised has been left, the token the
\* flow returned not being the one the two-factor steps would have stored.
C18_Witness ==
    /\ pc = "closed"
    /\ Len(outcomes) = 2
    /\ outcomes[1].exc = "None"
    /\ outcomes[2].exc = "HttpCodeError"
    /\ Len(sent) = 5
    /\ last_call.exc = "HttpCodeError"
    /\ last_net = Answer(200, EmptyObjectBody)

-----------------------------------------------------------------------------
(* deserialize applied to one validated response *)

\* The longest list a response carries.
MaxLen == 3

\* The elements of a data list: two users, an object that lacks a required
\* field of User, a numeral and a number.
ListElems == {UserJson("u1"), UserJson("u2"), JObject([id |-> "u3"]),
              JString("12.5"), JNumber(7006)}

JsonLists == UNION {[1..n -> ListElems] : n \in 0..MaxLen}

\* What "data" holds: a list, one element, null, or an object with a list or
\* an element under "user".
DeserializeDatas ==
    {JList(l) : l \in JsonLists}
    \cup ListElems \cup {JNull}
    \cup {JObject([user |-> d]) :
             d \in {JList(<<>>), JList(<<UserJson("u1")>>), UserJson("u1")}}

DeserializeBodies ==
    {JObject([data |-> d]) : d \in DeserializeDatas}
    \cup {EmptyObjectBody, JObject([error |-> [code |-> 1, message |-> "msg"]]),
          JList(<<UserJson("u1")>>)}

DataTypes == {"User", "float"}
NestedResponses == {<<>>, <<"user">>}

InitDeserialize ==
    /\ \E body \in DeserializeBodies :
          validated = Returned(ValidatedResponse(200, EmptyDict, body))
    /\ data_type \in DataTypes
    /\ nested_response \in NestedResponses
    /\ deserialized = NotRun
    /\ response = EmptyDict
    /\ ok_error_codes = <<>>
    /\ IdleClient
    /\ IdleLogin
    /\ IdleApi

Deserialize ==
    /\ deserialized.exc = "NotRun"
    /\ deserialized' = deserialize(validated.value, data_type, nested_response)
    /\ UNCHANGED <<validateVars, data_type, nested_response, api_client, sent,
                   last_call, loginVars, threads, sessions, page, payment_api,
                   client>>

NextDeserialize == Deserialize

SpecDeserialize == InitDeserialize /\ [][NextDeserialize]_vars

\* deserialize ran on a body whose data is a list, with an empty path.
DeserializedList ==
    /\ deserialized.exc # "NotRun"
    /\ nested_response = <<>>
    /\ validated.value.body.kind = "object"
    /\ "data" \in DOMAIN validated.value.body.val
    /\ validated.value.body.val.data.kind = "list"

\* C20: deserialize applied to a response with an empty nested path and a
\* list as its data returns a Page as long as the list whose i-th element is
\* the conversion of the i-th element of the list, for every i, an empty
\* list giving an empty Page; a list with an element that has no conversion
\* gives no Page.
C20_ListGivesPageInOrder ==
    DeserializedList
        => LET l == validated.value.body.val.data.val
               conv == [i \in DOMAIN l |-> Convert(data_type, l[i])]
           IN  IF \A i \in DOMAIN l : conv[i].exc = "None"
               THEN /\ deserialized.exc = "None"
                    /\ IsPage(deserialized.value)
                    /\ Len(deserialized.value.items) = Len(l)
                    /\ \A i \in DOMAIN l :
                          deserialized.value.items[i] = conv[i].value
                    /\ l = <<>> => deserialized.value = Page(<<>>)
               ELSE deserialized.exc # "None"

\* A list of three elements, not all alike, became a Page.
C20_Witness ==
    /\ DeserializedList
    /\ deserialized.exc = "None"
    /\ Len(validated.value.body.val.data.val) = 3
    /\ validated.value.body.val.data.val[1] # validated.value.body.val.data.val[3]
    /\ Len(deserialized.value.items) = 3

\* Some key of the path is absent from, or maps to a falsy value in, the
\* value reached so far; a value that is no object has no keys.
RECURSIVE PathBroken(_, _)
PathBroken(v, path) ==
    /\ path # <<>>
    /\ \/ v.kind # "object"
       \/ Falsy(Get(v, Head(path)))
       \/ PathBroken(Get(v, Head(path)), Tail(path))

\* deserialize ran with a nested path on a body that is a non-empty object.
DeserializedNested ==
    /\ deserialized.exc # "NotRun"
    /\ nested_response # <<>>
    /\ validated.value.body.kind = "object"
    /\ validated.value.body.val # EmptyDict

\* C21: deserialize with a nested path fails with ValueError whenever a key
\* along the path is absent or falsy in the value reached so far, a body
\* without data and an intermediate value that is no object included, and
\* the walk fails in no other way.
C21_MissingNestedKeyIsValueError ==
    DeserializedNested
        => LET data == Get(validated.value.body, "data")
           IN  PathBroken(data, nested_response)
                   => deserialized.exc = "ValueError"

-----------------------------------------------------------------------------
(* Calls of call_api with a callback, their threads running step by step *)
(* beside the caller *)

\* How many calls with a callback the caller makes.
MaxCalls == 2

\* ok_error_codes as the caller passes it to call_api.
ThreadOkCodes == {<<>>, <<1>>}

ThreadNets == {Answer(200, EmptyObjectBody), RefusedAnswer, NetFailure}

\* header_params of the calls with a callback.
ThreadHeaderParams == ("venmo-otp-secret" :> "sec1")

InitThreads ==
    /\ api_client = utils_ApiClient("tok1", "dev1", "sid1")
    /\ threads = <<>>
    /\ sessions = <<>>
    /\ last_call = NotRun
    /\ sent = <<>>
    /\ page = EmptyDict
    /\ payment_api = EmptyDict
    /\ client = EmptyDict
    /\ IdleValidate
    /\ IdleLogin
    /\ IdleDeserialize

threadsQuiet == <<validateVars, loginVars, deserializeVars, sent, page,
                  payment_api, client>>

\* call_api with a callback (lines 99-105): the thread is started with the
\* six arguments; given is the ok_error_codes the caller passed.
CallApiWithCallback ==
    /\ Len(threads) < MaxCalls
    /\ \E given \in ThreadOkCodes :
          threads' = Append(threads,
                            [args |-> utils_call_api_Thread("/me", "GET", ThreadHeaderParams,
                                                            EmptyDict, EmptyDict,
                                                            "callback"),
                             given |-> given, pc |-> "started", session |-> {},
                             net |-> EmptyDict, sent |-> <<>>,
                             outcome |-> NotRun, handed |-> <<>>])
    /\ UNCHANGED <<threadsQuiet, api_client, sessions, last_call>>

\* The caller goes on while the threads run: it renews the token ...
CallerUpdatesAccessToken ==
    /\ api_client.access_token = "tok1"
    /\ api_client' = utils_update_access_token(api_client, "tok2")
    /\ UNCHANGED <<threadsQuiet, threads, sessions, last_call>>

\* ... and calls call_api without a callback.
CallerCallsApi ==
    /\ \E net \in ThreadNets :
          LET r == utils___call_api(api_client, "/me", "GET", EmptyDict, EmptyDict,
                                    EmptyDict, None, <<>>, net)
              on == SessionOf(api_client, None, sessions)
          IN  /\ api_client' = r.client
              /\ sessions' = on.created
              /\ last_call' = [exc |-> r.outcome.exc, sent |-> r.sent,
                               session |-> on.id]
    /\ UNCHANGED <<threadsQuiet, threads>>

\* __call_api in a thread, lines 131-144: the session of the call.
ThreadTakesSession(i) ==
    /\ threads[i].pc = "started"
    /\ LET on == SessionOf(api_client, threads[i].args.callback, sessions)
       IN  /\ sessions' = on.created
           /\ threads' = [threads EXCEPT ![i].session = {on.id},
                                         ![i].pc = "session"]
    /\ UNCHANGED <<threadsQuiet, api_client, last_call>>

\* Lines 147-155: the request on that session; an exception ends the thread.
ThreadRequests(i) ==
    /\ threads[i].pc = "session"
    /\ \E net \in ThreadNets, id \in threads[i].session :
          LET a == threads[i].args
              hp == IF a.body # EmptyDict
                    THEN Update(a.header_params,
                                "Content-Type" :> "application/json; charset=utf-8")
                    ELSE a.header_params
              r == utils_request(api_client, a.method,
                                 <<api_client.configuration.host, a.resource_path>>,
                                 SessionAt(api_client, sessions, id), hp, a.params,
                                 a.body, a.ok_error_codes, net)
          IN  threads' = [threads EXCEPT
                             ![i].net = net,
                             ![i].sent = [k \in DOMAIN r.sent |->
                                             [session |-> id, headers |-> r.sent[k].headers]],
                             ![i].outcome = r.outcome,
                             ![i].pc = IF r.outcome.exc = "None"
                                       THEN "requested" ELSE "died"]
    /\ UNCHANGED <<threadsQuiet, api_client, sessions, last_call>>

\* Lines 157-160: last_response is set and the callback is called.
ThreadCallsBack(i) ==
    /\ threads[i].pc = "requested"
    /\ api_client' = [api_client EXCEPT !.last_response = threads[i].outcome.value]
    /\ threads' = [threads EXCEPT
                      ![i].handed = Append(@, threads[i].outcome.value),
                      ![i].pc = "done"]
    /\ UNCHANGED <<threadsQuiet, sessions, last_call>>

NextThreads ==
    \/ CallApiWithCallback
    \/ CallerUpdatesAccessToken
    \/ CallerCallsApi
    \/ \E i \in DOMAIN threads : ThreadTakesSession(i)
    \/ \E i \in DOMAIN threads : ThreadRequests(i)
    \/ \E i \in DOMAIN threads : ThreadCallsBack(i)

SpecThreads == InitThreads /\ [][NextThreads]_vars

\* The session of every thread is one the thread created, no two threads
\* have the same, and a thread's request went out on its session with that
\* session's headers and those of the call.
ThreadSessionsApart ==
    /\ \A i \in DOMAIN threads :
          /\ \A id \in threads[i].session :
                id # PrimarySession /\ id \in DOMAIN sessions
          /\ \A k \in DOMAIN threads[i].sent :
                /\ threads[i].sent[k].session \in threads[i].session
                /\ threads[i].sent[k].session # PrimarySession
                /\ threads[i].sent[k].session \in DOMAIN sessions
                /\ threads[i].sent[k].headers =
                      Update(sessions[threads[i].sent[k].session].headers,
                             threads[i].args.header_params)
    /\ \A i, j \in DOMAIN threads :
          i # j => threads[i].session \cap threads[j].session = {}

\* A thread took a step.
ThreadStep == Len(threads') = Len(threads) /\ threads' # threads

\* C22: a call of call_api with a callback sends its request on a session
\* created for it, which is not the client's, no step of the call changes
\* the client's session or builds on its headers, and two such calls that
\* run side by side never have the same session.
C22_CallbackUsesOwnSession ==
    /\ []ThreadSessionsApart
    /\ [][ThreadStep => /\ api_client'.session = api_client.session
                        /\ \A k \in DOMAIN sessions' :
                              k \notin DOMAIN sessions
                                 => sessions'[k].headers =
                                       Update(EmptyDict, api_client.default_headers)]_vars

\* Two threads hold a session each while neither has finished, one having
\* sent its request, after the caller renewed the token between them.
C22_Witness ==
    /\ Len(threads) = 2
    /\ threads[1].pc = "requested"
    /\ threads[2].pc = "session"
    /\ Len(threads[1].sent) = 1
    /\ Len(sessions) = 2
    /\ sessions[1] # sessions[2]
    /\ sessions[1] # api_client.session

\* What call_api without a callback gives for the arguments of thread i,
\* the ok_error_codes of the caller included, and the answer the thread got.
SyncOutcome(i) ==
    utils___call_api(api_client, threads[i].args.resource_path,
                     threads[i].args.method, threads[i].args.header_params,
                     threads[i].args.params, threads[i].args.body, None,
                     threads[i].given, threads[i].net).outcome

\* C30: a call with a callback that got a response and came to its end has
\* called the callback exactly once with what the call without a callback
\* returns for the same arguments, the caller's ok_error_codes included, and
\* has raised what that call raises; a response that call accepts is never
\* dropped without the callback being called.
C30_CallbackClassifiesAsSync ==
    \A i \in DOMAIN threads :
        (/\ threads[i].pc \in {"done", "died"}
         /\ threads[i].net # EmptyDict
         /\ threads[i].net.kind = "response")
            => IF SyncOutcome(i).exc = "None"
               THEN /\ threads[i].pc = "done"
                    /\ threads[i].handed = <<SyncOutcome(i).value>>
               ELSE /\ threads[i].pc = "died"
                    /\ threads[i].outcome.exc = SyncOutcome(i).exc
                    /\ threads[i].handed = <<>>

====
